---- MODULE Spec2Model ----
(***************************************************************************)
(* State-machine model of the SynapseX session engine: the P2P Network     *)
(* orchestrator (listen/dial, secure handshake, per-connection read loop,  *)
(* message dispatch, shutdown) and its ConnectionPool.                      *)
(*                                                                         *)
(* Two nodes run the Network code; a third endpoint X is a remote party    *)
(* that the code does not control: it dials, writes arbitrary frames and   *)
(* closes sockets.  Time is a logical clock in seconds that advances by    *)
(* one sweep interval per Tick.                                            *)
(***************************************************************************)
EXTENDS Integers, Sequences, FiniteSets, TLC

(* ------------------------------ bounds -------------------------------- *)
\* sockets that are ever dialled in one behaviour of the network
MaxSockets == 1
\* clock ticks in one behaviour
MaxTicks == 1
\* application frames originated by SendMessage calls and by X
MaxSends == 2
\* connection ids handed to the pool when it is driven on its own
MaxPoolIds == 3
\* peer ids a topology Manager is told about
MaxTopoIds == 3
\* quality and reputation updates in one behaviour of a Manager
MaxUpdates == 2
\* peer ids beyond meshThreshold that a Manager is handed
MaxExtraPeers == 2
\* target ids routes are asked for
MaxTargets == 2
\* width in bits of the integers that stand for int64 (Unix seconds)
IntBits == 10
\* tasks calling one object concurrently
MaxTasks == 2
\* calls each such task makes
MaxCalls == 2
\* cfg.P2P.MaxPeers as handed to NewConnectionPool: the pool's capacity
maxConnections == 1

(* ------------------------- program constants -------------------------- *)
DefaultConnectionTimeout == 30
DefaultMessageQueueSize == 100
\* period of the pool's cleanup ticker; the clock's granularity
SweepInterval == 30
\* read deadline set before every frame read
ReadDeadline == 30
\* VerifyHandshakeMessage's timestamp window
HandshakeWindow == 300
\* GetTopologyType: up to this many peers the topology is a star
StarLimit == 3
\* Manager.meshThreshold as NewManager sets it
meshThreshold == 10

Nodes == {"A", "B"}
Ext == "X"
Endpoints == Nodes \cup {Ext}
PeerIds == {"A", "B", "X"}
ConnIds == 1..(IF MaxPoolIds > MaxSockets THEN MaxPoolIds ELSE MaxSockets)
Socks == 1..MaxSockets
PoolIds == 1..MaxPoolIds
NoConn == 0

MessageTypeHello == "HELLO"
MessageTypePeerList == "PEER_LIST"
MessageTypeDataSync == "DATA_SYNC"
MessageTypeHeartbeat == "HEARTBEAT"
MessageTypePing == "PING"
MessageTypePong == "PONG"

VARIABLES
  now,          \* time.Now(), seconds
  net,          \* per node: listener, ctx, shutdownOnce, the loops Start launches
  peers,        \* per node: Network.peers, peer id -> connection id (NoConn: absent)
  poolPeers,    \* per node: ConnectionPool.peers, peer id -> connection id
  topoPeers,    \* per node: ids known to the topology Manager
  connections,  \* per node: keys of ConnectionPool.connections
  conn,         \* per node and connection id: handler position, LastSeen, read deadline
  wire,         \* per socket: who dialled, who accepts, whether accepted
  closedEnd,    \* per socket and side: that side has closed its net.Conn
  inbox,        \* per socket and side: frames written to it and not yet read
  messageChan,  \* per node: the dispatch backlog
  sent,         \* application frames originated so far
  ret,          \* the last API call and the error it returned
  verified,     \* per node and connection: node id of the handshake verified on it
  poolCloses,   \* per node and connection: times the pool closed-and-deleted it
                \* since it was added
  onceRuns,     \* per node: times the shutdown body has run
  dropped,      \* per node: generic frames dropped on a full backlog
  mgr,          \* a topology Manager's peers: id -> PeerInfo (NoPeer: absent)
  router,       \* a Router over that Manager: its strategy and its route cache
  out,          \* the last Manager / Router / ReputationSystem call and its result
  node,         \* a node.Node: status, stopCh, doneCh, the ctx given to Start, run
  task,         \* per calling task: its calls, where it is in them, what they returned
  mu            \* Manager.mu: the task holding the write lock, the tasks holding read locks

vars == <<now, net, peers, poolPeers, topoPeers, connections, conn, wire,
          closedEnd, inbox, messageChan, sent, ret, verified, poolCloses,
          onceRuns, dropped, mgr, router, out, node, task, mu>>

topoVars == <<mgr, router, out>>

taskVars == <<node, task, mu>>

\* the state of the networks, which the topology calls leave alone
p2pVars == <<now, net, peers, poolPeers, topoPeers, connections, conn, wire,
             closedEnd, inbox, messageChan, sent, ret, verified, poolCloses,
             onceRuns, dropped>>

(* ------------------------------ frames -------------------------------- *)
\* crypto.HandshakeMessage: signer is the private key that produced Signature
HandshakeMessage(nodeId, key, signer, ts) ==
  [kind |-> "hs", type |-> "", id |-> "", sender |-> "", nodeId |-> nodeId,
   key |-> key, signer |-> signer, ts |-> ts]

\* p2p.Message; nodeId is HelloPayload.NodeID for a HELLO
Message(type, id, sender, nodeId) ==
  [kind |-> "msg", type |-> type, id |-> id, sender |-> sender, nodeId |-> nodeId,
   key |-> "", signer |-> "", ts |-> 0]

\* NewMessage: the id is "<type>-<nanos>", never empty
NewMessage(type, sender, nodeId) == Message(type, "id", sender, nodeId)

\* a Validate that does not look at the sender
ValidateMut(m) == m.type # "" /\ m.id # ""

\* Message.Validate
Validate(m) == m.type # "" /\ m.id # "" /\ m.sender # ""

\* int64 arithmetic: the result of a subtraction wraps round
MinInt == -(2 ^ (IntBits - 1))
MaxInt == 2 ^ (IntBits - 1) - 1
Wrap(x) == ((x - MinInt) % (2 ^ IntBits)) + MinInt

\* HandshakeManager.CreateHandshakeMessage of node n
CreateHandshakeMessage(n) == HandshakeMessage(n, n, n, now)

\* HandshakeManager.VerifyHandshakeMessage: the embedded public key decodes (a
\* frame that carries none does not), the signature verifies against it, and the
\* timestamp is within the window
VerifyHandshakeMessage(m) ==
  /\ m.key # ""
  /\ m.signer = m.key
  /\ ~(Wrap(now - m.ts) > HandshakeWindow \/ Wrap(m.ts - now) > HandshakeWindow)

(* ----------------------------- sockets -------------------------------- *)
SideOf(s, e) == IF wire[s].dialer = e THEN "d" ELSE "a"
Other(side) == IF side = "d" THEN "a" ELSE "d"
EndOf(s, side) == IF side = "d" THEN wire[s].dialer ELSE wire[s].acceptor

\* a conn.Write of frame f by endpoint e on socket s, as [ok, inbox]: it fails on a
\* socket e has closed; bytes written to a socket the peer has closed, or to X,
\* are accepted and lost
Write(ib, cl, s, e, f) ==
  LET me == SideOf(s, e)
      to == Other(me)
  IN  IF cl[s][me] THEN [ok |-> FALSE, inbox |-> ib]
      ELSE IF cl[s][to] \/ EndOf(s, to) = Ext THEN [ok |-> TRUE, inbox |-> ib]
      ELSE [ok |-> TRUE, inbox |-> [ib EXCEPT ![s][to] = Append(@, f)]]

\* net.Conn.Close by endpoint e
Close(cl, s, e) == [cl EXCEPT ![s][SideOf(s, e)] = TRUE]

(* --------------------------- Connection ------------------------------- *)
\* an activity test that still passes at exactly the timeout
IsActiveMut(n, c) == now - conn[n][c].LastSeen <= DefaultConnectionTimeout

\* Connection.IsActive(timeout)
IsActive(n, c) == now - conn[n][c].LastSeen < DefaultConnectionTimeout

(* -------------------------- ConnectionPool ---------------------------- *)
\* a capacity test that admits one connection too many
IsFullMut(n) == Cardinality(connections[n]) > maxConnections

\* the capacity test of AddConnection / IsFull
IsFull(n) == Cardinality(connections[n]) >= maxConnections

Bump(k) == IF k < 2 THEN k + 1 ELSE k

\* ConnectionPool.AddConnection, as the error and the new <<connections, poolCloses>>
AddConnection(n, c) ==
  IF IsFull(n)
  THEN [err |-> "connection pool at maximum capacity",
        connections |-> connections, poolCloses |-> poolCloses]
  ELSE [err |-> "nil",
        connections |-> [connections EXCEPT ![n] = @ \cup {c}],
        poolCloses |-> [poolCloses EXCEPT ![n][c] = 0]]

\* RemoveConnection without its exists test
RemoveConnectionMut(n, c, cl) ==
  [connections |-> [connections EXCEPT ![n] = @ \ {c}],
   closedEnd |-> Close(cl, c, n),
   poolCloses |-> [poolCloses EXCEPT ![n][c] = Bump(@)]]

\* ConnectionPool.RemoveConnection, as the new <<connections, closedEnd, poolCloses>>
\* computed from cl, the sockets' closed flags
RemoveConnection(n, c, cl) ==
  IF c \in connections[n]
  THEN [connections |-> [connections EXCEPT ![n] = @ \ {c}],
        closedEnd |-> Close(cl, c, n),
        poolCloses |-> [poolCloses EXCEPT ![n][c] = Bump(@)]]
  ELSE [connections |-> connections, closedEnd |-> cl, poolCloses |-> poolCloses]

\* the ids cleanInactiveConnections collects
Inactive(n) == {c \in connections[n] : ~IsActive(n, c)}

(* ----------------------- topology.Manager, Router --------------------- *)
\* peer ids a Manager is told about
TopoIds == 1..MaxTopoIds

\* the Manager holds no PeerInfo under an id
NoPeer == [known |-> FALSE]

\* RoutingStrategy
Direct == "Direct"
Gossip == "Gossip"
ShortestPath == "ShortestPath"

\* updates: quality and reputation updates made so far
NoOut == [op |-> "none", arg |-> 0, val |-> 0, updates |-> 0]

\* what a call leaves in out
Out(op, arg, val) == [op |-> op, arg |-> arg, val |-> val, updates |-> out.updates]

\* NewManager, and NewRouter over it, before any call
TopoIdle ==
  /\ mgr = [i \in TopoIds |-> NoPeer]
  /\ router = [strategy |-> Direct, routeCache |-> <<>>]
  /\ out = NoOut

\* node.Status
StatusStopped == "stopped"
StatusStarting == "starting"
StatusRunning == "running"
StatusStopping == "stopping"

\* node.New: stopCh and doneCh open, nothing started
\* ctxDone: the context given to Start is cancelled; runs: run goroutines that
\* have not returned; panicked: a close of a closed channel has ended the process
NewNode ==
  [status |-> StatusStopped, stopCh |-> "open", doneCh |-> "open", ctxDone |-> FALSE,
   runs |-> 0, panicked |-> FALSE]

NoTask == 0

\* no calling tasks, a new Node, Manager.mu free
\* sync.RWMutex, unlocked: the task writing, the tasks reading, the tasks that
\* wait in Lock, and the readers that hold the lock a second time
FreeMutex == [writer |-> NoTask, readers |-> {}, waiting |-> {}, inner |-> {}]

TaskIdle ==
  /\ node = NewNode
  /\ task = <<>>
  /\ mu = FreeMutex

\* float64 values are kept in fixed point: Unit stands for 1.0, and quotients
\* are rounded down
Unit == 10000

\* time.Second, durations being kept in milliseconds
Second == 1000

Min(a, b) == IF a <= b THEN a ELSE b

\* ConnectionQuality
Quality(latency, bandwidth, packetLoss, jitter) ==
  [Latency |-> latency, Bandwidth |-> bandwidth, PacketLoss |-> packetLoss,
   Jitter |-> jitter]

\* the quality AddPeer initialises a peer with
DefaultQuality == Quality(Second, 1, 0, 10)

\* the PeerInfo AddPeer stores
NewPeerInfo ==
  [known |-> TRUE, Quality |-> DefaultQuality, Connected |-> TRUE, Reputation |-> 0]

\* 1.0 / (1.0 + float64(d)/float64(time.Second)), for d other than -1 s
SecondsScore(d) == (Unit * Second) \div (Second + d)

\* Manager.calculateQualityScore
calculateQualityScore(q) ==
  LET latencyScore == SecondsScore(q.Latency)
      bandwidthScore == Min(q.Bandwidth * (Unit \div 100), Unit)
      packetLossScore == Unit - Min(q.PacketLoss * (Unit \div 100), Unit)
      jitterScore == SecondsScore(q.Jitter)
      totalScore == (latencyScore * 3 + bandwidthScore * 3 + packetLossScore * 2
                       + jitterScore * 2) \div 10
  IN  Min(totalScore, Unit)

\* the ids the Manager knows
Known == {i \in DOMAIN mgr : mgr[i].known}

\* the score GetBestPeers sorts by, qualityScore*0.7 + Reputation*0.3, times 10
Score(i) == calculateQualityScore(mgr[i].Quality) * 7 + mgr[i].Reputation * 3

\* a sort with the comparison turned round
SortedMut(o) == \A j \in 1..(Len(o) - 1) : Score(o[j]) <= Score(o[j + 1])

\* what sort.Slice with less = (score[i] > score[j]) guarantees of its result
Sorted(o) == \A j \in 1..(Len(o) - 1) : Score(o[j]) >= Score(o[j + 1])

\* the orders sort.Slice can leave the peers in: the map is ranged over in any
\* order and the sort is not stable, so peers of equal score come out in any order
Rankings ==
  {o \in [1..Cardinality(Known) -> Known] :
     (\A i, j \in DOMAIN o : o[i] = o[j] => i = j) /\ Sorted(o)}

\* Manager.GetBestPeers(n), n >= 0: the lists it can return
GetBestPeers(n) == {SubSeq(o, 1, Min(n, Len(o))) : o \in Rankings}

\* a filter that lets the excluded id through
BroadcastKeepMut(exclude, i) == mgr[i].Connected

\* the test GetOptimalPeersForBroadcast applies to a ranked id
BroadcastKeep(exclude, i) == i # exclude /\ mgr[i].known /\ mgr[i].Connected

\* Manager.GetOptimalPeersForBroadcast(exclude, max), max >= 0: the lists it can
\* return
GetOptimalPeersForBroadcast(exclude, max) ==
  {LET Keep(i) == BroadcastKeep(exclude, i)
       kept == SelectSeq(o, Keep)
   IN  SubSeq(kept, 1, Min(max, Len(kept))) : o \in GetBestPeers(Cardinality(Known))}

\* a Manager that turns to partial mesh one peer early
GetTopologyTypeMut(peerCount) ==
  IF peerCount <= StarLimit THEN "star"
  ELSE IF peerCount < meshThreshold THEN "full-mesh"
  ELSE "partial-mesh"

\* Manager.GetTopologyType, from len(t.peers)
GetTopologyType(peerCount) ==
  IF peerCount <= StarLimit THEN "star"
  ELSE IF peerCount <= meshThreshold THEN "full-mesh"
  ELSE "partial-mesh"

\* the clamp to [-1.0, 1.0] the reputation code applies
Clamp(x) == IF x < -Unit THEN -Unit ELSE IF x > Unit THEN Unit ELSE x

\* UpdateReputationBasedOnBehavior: the reputation it hands to UpdatePeerReputation
BehaviorReputation(cur, behaviorScore) == Clamp((cur * 7 + Clamp(behaviorScore) * 3) \div 10)

\* UpdateReputationBasedOnPerformance: the score it hands on; responseTime in ms
PerformanceScore(successRate, responseTime) ==
  LET performanceScore ==
        IF responseTime < 100 THEN (successRate * 12) \div 10
        ELSE IF responseTime > Second THEN (successRate * 8) \div 10
        ELSE successRate
  IN  Clamp(performanceScore * 2 - Unit)

\* UpdateReputationBasedOnReliability: the score it hands on
ReliabilityScore(uptimeRatio, messageDeliveryRate) ==
  Clamp(((uptimeRatio * 6 + messageDeliveryRate * 4) \div 10) * 2 - Unit)

\* DecayReputation: the reputation it hands to UpdatePeerReputation
DecayedReputation(cur, decayRate) == Clamp((cur * (Unit - decayRate)) \div Unit)

(* ------------------------------- Init --------------------------------- *)
NoCall == [op |-> "none", node |-> "none", arg |-> 0, err |-> "nil"]

\* what an API call leaves in ret
Call(op, n, arg, err) == [op |-> op, node |-> n, arg |-> arg, err |-> err]

FreshNet ==
  [listener |-> "nil", ctx |-> "nil", once |-> FALSE, accept |-> "none",
   sweep |-> "none", dispatch |-> "none", launched |-> 0]

\* hsFailed: performSecureHandshake returned an error on this connection
FreshConn ==
  [pc |-> "none", LastSeen |-> 0, deadline |-> 0, hsFailed |-> FALSE, writeErr |-> FALSE]

FreshWire == [used |-> FALSE, dialer |-> Ext, acceptor |-> "A", accepted |-> FALSE]

\* the state New() returns, for every node, with no socket dialled yet
\* the Network objects as New leaves them
NetIdle ==
  /\ now = 0
  /\ net = [n \in Nodes |-> FreshNet]
  /\ peers = [n \in Nodes |-> [p \in PeerIds |-> NoConn]]
  /\ poolPeers = [n \in Nodes |-> [p \in PeerIds |-> NoConn]]
  /\ topoPeers = [n \in Nodes |-> {}]
  /\ connections = [n \in Nodes |-> {}]
  /\ conn = [n \in Nodes |-> [c \in ConnIds |-> FreshConn]]
  /\ wire = [s \in ConnIds |-> FreshWire]
  /\ closedEnd = [s \in ConnIds |-> [d |-> FALSE, a |-> FALSE]]
  /\ inbox = [s \in ConnIds |-> [d |-> <<>>, a |-> <<>>]]
  /\ messageChan = [n \in Nodes |-> <<>>]
  /\ sent = 0
  /\ ret = NoCall
  /\ verified = [n \in Nodes |-> [c \in ConnIds |-> "none"]]
  /\ poolCloses = [n \in Nodes |-> [c \in ConnIds |-> 0]]
  /\ onceRuns = [n \in Nodes |-> 0]
  /\ dropped = [n \in Nodes |-> 0]

Init ==
  /\ NetIdle
  /\ TopoIdle
  /\ TaskIdle

netVars == <<net, onceRuns>>
peerVars == <<peers, poolPeers, topoPeers, verified>>
sockVars == <<wire, closedEnd, inbox>>
poolVars == <<connections, poolCloses>>
chanVars == <<messageChan, dropped>>

Tick ==
  /\ now < MaxTicks * SweepInterval
  /\ now' = now + SweepInterval
  /\ UNCHANGED <<topoVars, taskVars, netVars, peerVars, sockVars, poolVars, chanVars, conn, sent, ret>>

(* ------------------------- Network.Start / Stop ----------------------- *)
\* Start without its listener guard
AlreadyStartedMut(n) == FALSE

\* Start's guard: n.listener != nil
AlreadyStarted(n) == net[n].listener # "nil"

\* Network.Start; listenOk is the outcome of net.Listen
Start(n) ==
  /\ IF AlreadyStarted(n)
     THEN /\ ret' = Call("Start", n, 0, "network already started")
          /\ UNCHANGED net
     ELSE \E listenOk \in BOOLEAN :
            IF listenOk
            THEN /\ net' = [net EXCEPT ![n].ctx = "live", ![n].listener = "open",
                                       ![n].accept = "run", ![n].sweep = "run",
                                       ![n].dispatch = "run", ![n].launched = @ + 1]
                 /\ ret' = Call("Start", n, 0, "nil")
            ELSE /\ net' = [net EXCEPT ![n].ctx = "live"]
                 /\ ret' = Call("Start", n, 0, "failed to start TCP listener")
  /\ UNCHANGED <<topoVars, taskVars, now, onceRuns, peerVars, sockVars, poolVars, chanVars, conn, sent>>

\* Stop without shutdownOnce
OnceDoneMut(n) == FALSE

\* sync.Once: the body has already run
OnceDone(n) == net[n].once

\* every pooled connection's socket closed by n (Stop's loop over GetConnections)
CloseAll(n, cl) ==
  [s \in ConnIds |-> IF s \in connections[n] THEN Close(cl, s, n)[s] ELSE cl[s]]

\* Network.Stop
Stop(n) ==
  /\ IF OnceDone(n)
     THEN /\ ret' = Call("Stop", n, 0, "nil")
          /\ UNCHANGED <<net, onceRuns, closedEnd, peers>>
     ELSE /\ net' = [net EXCEPT ![n].once = TRUE,
                                ![n].ctx = IF @ = "nil" THEN "nil" ELSE "cancelled",
                                ![n].listener = IF @ = "nil" THEN "nil" ELSE "closed"]
          /\ onceRuns' = [onceRuns EXCEPT ![n] = Bump(@)]
          /\ closedEnd' = CloseAll(n, closedEnd)
          /\ peers' = [peers EXCEPT ![n] = [p \in PeerIds |-> NoConn]]
          /\ ret' = Call("Stop", n, 0, IF net[n].listener = "nil"
                                         THEN "network not started" ELSE "nil")
  /\ UNCHANGED <<topoVars, taskVars, now, poolPeers, topoPeers, verified, wire, inbox, poolVars, chanVars,
                 conn, sent>>

(* --------------------------- dial and accept -------------------------- *)
\* the socket a new dial gets: sockets are handed out in order
Unused == {s \in Socks : ~wire[s].used}
NextSock == CHOOSE s \in Unused : \A u \in Unused : s <= u

\* endpoint a accepts TCP connections; X always does
Listening(a) == IF a = Ext THEN TRUE ELSE net[a].listener = "open"

\* Network.Connect of node d to the address of a, for a dial that succeeds (a
\* failed dial returns an error and changes nothing): the outgoing handler is
\* launched.  The caller has started d, as every caller in the repository does.
Connect(d, a) ==
  /\ d # a
  /\ net[d].ctx # "nil"
  /\ Listening(a)
  /\ Unused # {}
  /\ wire' = [wire EXCEPT ![NextSock] =
                [used |-> TRUE, dialer |-> d, acceptor |-> a, accepted |-> a = Ext]]
  /\ conn' = [conn EXCEPT ![d][NextSock].pc = "new"]
  /\ UNCHANGED <<topoVars, taskVars, now, netVars, peerVars, closedEnd, inbox, poolVars, chanVars, sent, ret>>

\* acceptConnections, one iteration that accepts socket s and launches its handler
Accept(a, s) ==
  /\ net[a].accept = "run"
  /\ net[a].listener = "open"
  /\ wire[s].used /\ wire[s].acceptor = a /\ ~wire[s].accepted
  /\ wire' = [wire EXCEPT ![s].accepted = TRUE]
  /\ conn' = [conn EXCEPT ![a][s].pc = "new"]
  /\ UNCHANGED <<topoVars, taskVars, now, netVars, peerVars, closedEnd, inbox, poolVars, chanVars, sent, ret>>

\* acceptConnections returns once the context is cancelled
AcceptExit(a) ==
  /\ net[a].accept = "run"
  /\ net[a].ctx = "cancelled"
  /\ net' = [net EXCEPT ![a].accept = "exit"]
  /\ UNCHANGED <<topoVars, taskVars, now, onceRuns, peerVars, sockVars, poolVars, chanVars, conn, sent, ret>>

(* ----------------- handleConnectionWithEncryption --------------------- *)
Incoming(n, s) == wire[s].acceptor = n

\* the Connection is built and offered to the pool; a full pool closes the socket
HandlerAdd(n, s) ==
  LET r == AddConnection(n, s)
  IN  /\ conn[n][s].pc = "new"
      /\ connections' = r.connections
      /\ poolCloses' = r.poolCloses
      /\ IF r.err # "nil"
         THEN /\ conn' = [conn EXCEPT ![n][s].pc = "done", ![n][s].LastSeen = now]
              /\ closedEnd' = Close(closedEnd, s, n)
         ELSE /\ conn' = [conn EXCEPT ![n][s].pc = IF Incoming(n, s) THEN "recvHs"
                                                   ELSE "sendHs",
                                      ![n][s].LastSeen = now]
              /\ UNCHANGED closedEnd
      /\ UNCHANGED <<topoVars, taskVars, now, netVars, peerVars, wire, inbox, chanVars, sent, ret>>

\* Network.registerPeer, as the new <<peers, poolPeers, topoPeers>>
registerPeer(n, peerID, c) ==
  [peers |-> [peers EXCEPT ![n][peerID] = c],
   poolPeers |-> [poolPeers EXCEPT ![n][peerID] = c],
   topoPeers |-> [topoPeers EXCEPT ![n] = @ \cup {peerID}]]

\* receiveHandshakeMessage + VerifyHandshakeMessage + registerPeer.  The bufio
\* reader made for this one read is dropped afterwards together with the k
\* further frames it has buffered.
ReceiveHandshake(n, s, next) ==
  LET side == SideOf(s, n)
      m == Head(inbox[s][side])
      reg == registerPeer(n, m.nodeId, s)
  IN  /\ ~closedEnd[s][side]
      /\ inbox[s][side] # <<>>
      /\ \E k \in 0..(Len(inbox[s][side]) - 1) :
           inbox' = [inbox EXCEPT ![s][side] = SubSeq(@, k + 2, Len(@))]
      /\ IF VerifyHandshakeMessage(m)
         THEN /\ peers' = reg.peers
              /\ poolPeers' = reg.poolPeers
              /\ topoPeers' = reg.topoPeers
              /\ verified' = [verified EXCEPT ![n][s] = m.nodeId]
              /\ conn' = [conn EXCEPT ![n][s].pc = next]
         ELSE /\ conn' = [conn EXCEPT ![n][s].pc = "teardown", ![n][s].hsFailed = TRUE]
              /\ UNCHANGED peerVars
      /\ UNCHANGED <<topoVars, taskVars, now, netVars, wire, closedEnd, poolVars, chanVars, sent, ret>>

\* a read that a closed socket does not wake
ReadFailsMut(n, s) == FALSE

\* a blocked read fails: the socket was closed under it, or the peer closed and
\* nothing is left to read
ReadFails(n, s) ==
  \/ closedEnd[s][SideOf(s, n)]
  \/ (closedEnd[s][Other(SideOf(s, n))] /\ inbox[s][SideOf(s, n)] = <<>>)

HandshakeReadError(n, s) ==
  /\ conn[n][s].pc \in {"recvHs", "recvResp"}
  /\ ReadFails(n, s)
  /\ conn' = [conn EXCEPT ![n][s].pc = "teardown", ![n][s].hsFailed = TRUE]
  /\ UNCHANGED <<topoVars, taskVars, now, netVars, peerVars, sockVars, poolVars, chanVars, sent, ret>>

\* CreateHandshakeMessage + sendHandshakeMessage; createOk is whether the message
\* could be built and signed
SendHandshake(n, s, next) ==
  \E createOk \in BOOLEAN :
    LET w == Write(inbox, closedEnd, s, n, CreateHandshakeMessage(n))
    IN  /\ IF createOk /\ w.ok
           THEN /\ conn' = [conn EXCEPT ![n][s].pc = next]
                /\ inbox' = w.inbox
           ELSE /\ conn' = [conn EXCEPT ![n][s].pc = "teardown", ![n][s].hsFailed = TRUE]
                /\ UNCHANGED inbox
        /\ UNCHANGED <<topoVars, taskVars, now, netVars, peerVars, wire, closedEnd, poolVars, chanVars, sent, ret>>

\* performSecureHandshake, incoming: receive and verify, register, then respond
HsRecv(n, s) == conn[n][s].pc = "recvHs" /\ ReceiveHandshake(n, s, "sendResp")
HsRespond(n, s) == conn[n][s].pc = "sendResp" /\ SendHandshake(n, s, "loop")

\* performSecureHandshake, outgoing: send first, then receive, verify and register
HsSend(n, s) == conn[n][s].pc = "sendHs" /\ SendHandshake(n, s, "recvResp")
HsRecvResp(n, s) == conn[n][s].pc = "recvResp" /\ ReceiveHandshake(n, s, "loop")

(* ------------------------- processMessage ----------------------------- *)
FixedHandlerTypes ==
  {MessageTypeHello, MessageTypeHeartbeat, MessageTypePeerList, MessageTypePing,
   MessageTypePong}

\* the cases of processMessage's switch that name a handler
HasFixedHandler(type) == type \in FixedHandlerTypes

\* an unbounded backlog
BacklogHasRoomMut(q) == TRUE

\* the send case of the select on messageChan is ready
BacklogHasRoom(q) == Len(q) < DefaultMessageQueueSize

\* the frame a fixed handler writes back on the connection, if any:
\* sendPeerList for HELLO, a HEARTBEAT for HEARTBEAT, a PONG for PING
Reply(n, m) ==
  IF m.type = MessageTypeHello THEN <<NewMessage(MessageTypePeerList, n, "")>>
  ELSE IF m.type = MessageTypeHeartbeat THEN <<NewMessage(MessageTypeHeartbeat, n, n)>>
  ELSE IF m.type = MessageTypePing THEN <<NewMessage(MessageTypePong, n, "")>>
  ELSE <<>>

\* handleHelloMessage stores a Peer under the payload's node id
HelloRegisters(m) == m.type = MessageTypeHello

\* sendMessageToConn of a handler's reply succeeds: the socket is open and the
\* 10 s write deadline, whose outcome is inTime, has not expired
ReplySent(n, m, c, ib, inTime) ==
  inTime /\ Write(ib, closedEnd, c, n, Reply(n, m)[1]).ok

\* Network.processMessage for message m read on connection c of node n; ib is the
\* inbox after the read and inTime the outcome of the reply's write deadline.  A
\* fixed handler's write error is logged, or returned and logged by the caller.
processMessage(n, m, c, ib, inTime) ==
  /\ IF HelloRegisters(m)
     THEN /\ peers' = [peers EXCEPT ![n][m.nodeId] = c]
          /\ poolPeers' = [poolPeers EXCEPT ![n][m.nodeId] = c]
     ELSE UNCHANGED <<peers, poolPeers>>
  /\ IF HasFixedHandler(m.type)
     THEN /\ inbox' = IF Reply(n, m) = <<>> \/ ~ReplySent(n, m, c, ib, inTime) THEN ib
                      ELSE Write(ib, closedEnd, c, n, Reply(n, m)[1]).inbox
          /\ UNCHANGED <<messageChan, dropped>>
     ELSE /\ inbox' = ib
          /\ IF BacklogHasRoom(messageChan[n])
             THEN /\ messageChan' = [messageChan EXCEPT ![n] = Append(@, m.type)]
                  /\ UNCHANGED dropped
             ELSE /\ dropped' = [dropped EXCEPT ![n] = Bump(@)]
                  /\ UNCHANGED messageChan

(* --------------------------- readMessages ----------------------------- *)
\* top of the loop: return on a cancelled context, else set the read deadline
LoopTop(n, s) ==
  /\ conn[n][s].pc = "loop"
  /\ conn' = [conn EXCEPT ![n][s].pc = IF net[n].ctx = "cancelled" THEN "teardown"
                                       ELSE "reading",
                          ![n][s].deadline = IF net[n].ctx = "cancelled" THEN @
                                             ELSE now + ReadDeadline]
  /\ UNCHANGED <<topoVars, taskVars, now, netVars, peerVars, sockVars, poolVars, chanVars, sent, ret>>

\* a read loop that does not refresh LastSeen
UpdateLastSeenMut(n, c) == conn[n][c].LastSeen

\* Connection.UpdateLastSeen, as the new LastSeen
UpdateLastSeen(n, c) == now

\* a frame is read: LastSeen is refreshed, then the frame is decoded, validated
\* and dispatched; a frame that fails either step is skipped, and so is one
\* whose handler returns an error: the loop continues in every case.  writeErr
\* records that a reply could not be written.
ReadFrame(n, s) ==
  LET side == SideOf(s, n)
      m == Head(inbox[s][side])
      ib == [inbox EXCEPT ![s][side] = Tail(@)]
      replies == Validate(m) /\ Reply(n, m) # <<>>
  IN  /\ conn[n][s].pc = "reading"
      /\ ~closedEnd[s][side]
      /\ inbox[s][side] # <<>>
      /\ \E inTime \in (IF replies THEN BOOLEAN ELSE {TRUE}) :
           /\ conn' = [conn EXCEPT ![n][s].pc = "loop",
                                   ![n][s].LastSeen = UpdateLastSeen(n, s),
                                   ![n][s].writeErr =
                                      @ \/ (replies /\ ~ReplySent(n, m, s, ib, inTime))]
           /\ IF Validate(m)
              THEN processMessage(n, m, s, ib, inTime)
              ELSE inbox' = ib /\ UNCHANGED <<peers, poolPeers, chanVars>>
      /\ UNCHANGED <<topoVars, taskVars, now, netVars, topoPeers, verified, wire, closedEnd, poolVars, sent, ret>>

\* ReadBytes returns an error: closed socket, end of stream, or deadline
ReadError(n, s) ==
  /\ conn[n][s].pc = "reading"
  /\ \/ ReadFails(n, s)
     \/ (inbox[s][SideOf(s, n)] = <<>> /\ now >= conn[n][s].deadline)
  /\ conn' = [conn EXCEPT ![n][s].pc = "teardown"]
  /\ UNCHANGED <<topoVars, taskVars, now, netVars, peerVars, sockVars, poolVars, chanVars, sent, ret>>

\* the deferred function: pool.RemoveConnection(connID); conn.Close()
Teardown(n, s) ==
  LET r == RemoveConnection(n, s, closedEnd)
  IN  /\ conn[n][s].pc = "teardown"
      /\ connections' = r.connections
      /\ poolCloses' = r.poolCloses
      /\ closedEnd' = Close(r.closedEnd, s, n)
      /\ conn' = [conn EXCEPT ![n][s].pc = "done"]
      /\ UNCHANGED <<topoVars, taskVars, now, netVars, peerVars, wire, inbox, chanVars, sent, ret>>

(* ----------------------- the loops Start launches --------------------- *)
\* cleanInactiveConnections
cleanInactiveConnections(n) ==
  LET dead == Inactive(n)
  IN  /\ connections' = [connections EXCEPT ![n] = @ \ dead]
      /\ closedEnd' = [s \in ConnIds |->
                         IF s \in dead THEN Close(closedEnd, s, n)[s] ELSE closedEnd[s]]
      /\ poolCloses' = [poolCloses EXCEPT ![n] =
                          [c \in ConnIds |-> IF c \in dead THEN Bump(@[c]) ELSE @[c]]]

\* CleanInactive: the ticker fires
Sweep(n) ==
  /\ net[n].sweep = "run"
  /\ Inactive(n) # {}
  /\ cleanInactiveConnections(n)
  /\ UNCHANGED <<topoVars, taskVars, now, netVars, peerVars, wire, inbox, chanVars, conn, sent, ret>>

SweepExit(n) ==
  /\ net[n].sweep = "run"
  /\ net[n].ctx = "cancelled"
  /\ net' = [net EXCEPT ![n].sweep = "exit"]
  /\ UNCHANGED <<topoVars, taskVars, now, onceRuns, peerVars, sockVars, poolVars, chanVars, conn, sent, ret>>

\* processMessages takes one message off the backlog
Dispatch(n) ==
  /\ net[n].dispatch = "run"
  /\ messageChan[n] # <<>>
  /\ messageChan' = [messageChan EXCEPT ![n] = Tail(@)]
  /\ UNCHANGED <<topoVars, taskVars, now, netVars, peerVars, sockVars, poolVars, dropped, conn, sent, ret>>

DispatchExit(n) ==
  /\ net[n].dispatch = "run"
  /\ net[n].ctx = "cancelled"
  /\ net' = [net EXCEPT ![n].dispatch = "exit"]
  /\ UNCHANGED <<topoVars, taskVars, now, onceRuns, peerVars, sockVars, poolVars, chanVars, conn, sent, ret>>

(* --------------------------- SendMessage ------------------------------ *)
SendTypes == {MessageTypeDataSync, MessageTypePing}

\* Network.SendMessage(peerID, msg) with msg = NewMessage(type, n, ...), for a
\* peer the table knows (for any other it returns an error and changes nothing)
SendMessage(n, peerID, type) ==
  LET c == peers[n][peerID]
      w == Write(inbox, closedEnd, c, n, NewMessage(type, n, ""))
  IN  /\ sent < MaxSends
      /\ c # NoConn
      /\ inbox' = w.inbox
      /\ sent' = sent + 1
      /\ UNCHANGED <<topoVars, taskVars, now, netVars, peerVars, wire, closedEnd, poolVars, chanVars, conn, ret>>

(* --------------------------- the remote X ----------------------------- *)
XDial(a) ==
  /\ net[a].listener = "open"
  /\ Unused # {}
  /\ wire' = [wire EXCEPT ![NextSock] =
                [used |-> TRUE, dialer |-> Ext, acceptor |-> a, accepted |-> FALSE]]
  /\ UNCHANGED <<topoVars, taskVars, now, netVars, peerVars, closedEnd, inbox, poolVars, chanVars, conn, sent, ret>>

\* what X writes: its own handshake, a handshake it signs in B's name, one that
\* names B's key without B's signature, a handshake B made and sent at time 0
\* that X has a copy of; a HELLO in B's name, a PING, a generic message, a
\* message without an id
XFrames ==
  {HandshakeMessage("X", "X", "X", now), HandshakeMessage("B", "X", "X", now),
   HandshakeMessage("B", "B", "X", now), HandshakeMessage("B", "B", "B", 0),
   NewMessage(MessageTypeHello, "X", "B"), NewMessage(MessageTypePing, "X", ""),
   NewMessage(MessageTypeDataSync, "X", ""), Message(MessageTypeDataSync, "", "X", "")}

XWrite(s, f) ==
  /\ wire[s].used /\ Ext \in {wire[s].dialer, wire[s].acceptor}
  /\ sent < MaxSends
  /\ Write(inbox, closedEnd, s, Ext, f).ok
  /\ inbox' = Write(inbox, closedEnd, s, Ext, f).inbox
  /\ sent' = sent + 1
  /\ UNCHANGED <<topoVars, taskVars, now, netVars, peerVars, wire, closedEnd, poolVars, chanVars, conn, ret>>

XClose(s) ==
  /\ wire[s].used /\ Ext \in {wire[s].dialer, wire[s].acceptor}
  /\ ~closedEnd[s][SideOf(s, Ext)]
  /\ closedEnd' = Close(closedEnd, s, Ext)
  /\ UNCHANGED <<topoVars, taskVars, now, netVars, peerVars, wire, inbox, poolVars, chanVars, conn, sent, ret>>

(* ------------------------------- Next --------------------------------- *)
\* node A through its whole life, against the remote X
Next ==
  \/ Tick
  \/ Start("A")
  \/ Stop("A")
  \/ Connect("A", Ext)
  \/ \E s \in Socks : Accept("A", s)
  \/ AcceptExit("A")
  \/ \E s \in Socks : HandlerAdd("A", s)
  \/ \E s \in Socks : HsRecv("A", s)
  \/ \E s \in Socks : HsRespond("A", s)
  \/ \E s \in Socks : HsSend("A", s)
  \/ \E s \in Socks : HsRecvResp("A", s)
  \/ \E s \in Socks : HandshakeReadError("A", s)
  \/ \E s \in Socks : LoopTop("A", s)
  \/ \E s \in Socks : ReadFrame("A", s)
  \/ \E s \in Socks : ReadError("A", s)
  \/ \E s \in Socks : Teardown("A", s)
  \/ Sweep("A")
  \/ SweepExit("A")
  \/ Dispatch("A")
  \/ DispatchExit("A")
  \/ \E p \in PeerIds, ty \in SendTypes : SendMessage("A", p, ty)
  \/ XDial("A")
  \/ \E s \in Socks, f \in XFrames : XWrite(s, f)
  \/ \E s \in Socks : XClose(s)

Spec == Init /\ [][Next]_vars

(* --------------------- the pool driven on its own ---------------------- *)
\* a ConnectionPool (A's) whose caller holds MaxPoolIds open connections
InitPool ==
  /\ now = 0
  /\ net = [n \in Nodes |-> FreshNet]
  /\ peers = [n \in Nodes |-> [p \in PeerIds |-> NoConn]]
  /\ poolPeers = [n \in Nodes |-> [p \in PeerIds |-> NoConn]]
  /\ topoPeers = [n \in Nodes |-> {}]
  /\ connections = [n \in Nodes |-> {}]
  /\ conn = [n \in Nodes |-> [c \in ConnIds |-> FreshConn]]
  /\ wire = [s \in ConnIds |->
               IF s \in PoolIds
               THEN [used |-> TRUE, dialer |-> Ext, acceptor |-> "A", accepted |-> TRUE]
               ELSE FreshWire]
  /\ closedEnd = [s \in ConnIds |-> [d |-> FALSE, a |-> FALSE]]
  /\ inbox = [s \in ConnIds |-> [d |-> <<>>, a |-> <<>>]]
  /\ messageChan = [n \in Nodes |-> <<>>]
  /\ sent = 0
  /\ ret = NoCall
  /\ verified = [n \in Nodes |-> [c \in ConnIds |-> "none"]]
  /\ poolCloses = [n \in Nodes |-> [c \in ConnIds |-> 0]]
  /\ onceRuns = [n \in Nodes |-> 0]
  /\ dropped = [n \in Nodes |-> 0]
  /\ TopoIdle
  /\ TaskIdle

\* pool.AddConnection(&Connection{ID: c, LastSeen: time.Now()})
PoolAdd(c) ==
  LET r == AddConnection("A", c)
  IN  /\ connections' = r.connections
      /\ poolCloses' = r.poolCloses
      /\ conn' = IF r.err = "nil" THEN [conn EXCEPT !["A"][c].LastSeen = now] ELSE conn
      /\ ret' = Call("AddConnection", "A", c, r.err)
      /\ UNCHANGED <<topoVars, taskVars, now, netVars, peerVars, sockVars, chanVars, sent>>

\* pool.RemoveConnection(c)
PoolRemove(c) ==
  LET r == RemoveConnection("A", c, closedEnd)
  IN  /\ connections' = r.connections
      /\ poolCloses' = r.poolCloses
      /\ closedEnd' = r.closedEnd
      /\ ret' = Call("RemoveConnection", "A", c, "nil")
      /\ UNCHANGED <<topoVars, taskVars, now, netVars, peerVars, wire, inbox, chanVars, conn, sent>>

\* one firing of the sweep's ticker; the call is recorded with the number of
\* connections it cleaned
PoolSweep ==
  /\ cleanInactiveConnections("A")
  /\ ret' = Call("cleanInactiveConnections", "A", Cardinality(Inactive("A")), "nil")
  /\ UNCHANGED <<topoVars, taskVars, now, netVars, peerVars, wire, inbox, chanVars, conn, sent>>

\* Connection.UpdateLastSeen on a pooled connection
PoolTouch(c) ==
  /\ c \in connections["A"]
  /\ conn' = [conn EXCEPT !["A"][c].LastSeen = UpdateLastSeen("A", c)]
  /\ UNCHANGED <<topoVars, taskVars, now, netVars, peerVars, sockVars, poolVars, chanVars, sent, ret>>

NextPool ==
  \/ Tick
  \/ \E c \in PoolIds : PoolAdd(c)
  \/ \E c \in PoolIds : PoolRemove(c)
  \/ PoolSweep
  \/ \E c \in PoolIds : PoolTouch(c)

SpecPool == InitPool /\ [][NextPool]_vars

(* ----------------------- two nodes: B dials A -------------------------- *)
StartedNet ==
  [listener |-> "open", ctx |-> "live", once |-> FALSE, accept |-> "run",
   sweep |-> "run", dispatch |-> "run", launched |-> 1]

\* both networks constructed and started, as in TestNetworkIntegration
InitPair ==
  /\ now = 0
  /\ net = [n \in Nodes |-> StartedNet]
  /\ peers = [n \in Nodes |-> [p \in PeerIds |-> NoConn]]
  /\ poolPeers = [n \in Nodes |-> [p \in PeerIds |-> NoConn]]
  /\ topoPeers = [n \in Nodes |-> {}]
  /\ connections = [n \in Nodes |-> {}]
  /\ conn = [n \in Nodes |-> [c \in ConnIds |-> FreshConn]]
  /\ wire = [s \in ConnIds |-> FreshWire]
  /\ closedEnd = [s \in ConnIds |-> [d |-> FALSE, a |-> FALSE]]
  /\ inbox = [s \in ConnIds |-> [d |-> <<>>, a |-> <<>>]]
  /\ messageChan = [n \in Nodes |-> <<>>]
  /\ sent = 0
  /\ ret = NoCall
  /\ verified = [n \in Nodes |-> [c \in ConnIds |-> "none"]]
  /\ poolCloses = [n \in Nodes |-> [c \in ConnIds |-> 0]]
  /\ onceRuns = [n \in Nodes |-> 0]
  /\ dropped = [n \in Nodes |-> 0]
  /\ TopoIdle
  /\ TaskIdle

NextPair ==
  \/ Tick
  \/ Connect("B", "A")
  \/ \E s \in Socks : Accept("A", s)
  \/ \E n \in Nodes, s \in Socks : HandlerAdd(n, s)
  \/ \E s \in Socks : HsRecv("A", s)
  \/ \E s \in Socks : HsRespond("A", s)
  \/ \E s \in Socks : HsSend("B", s)
  \/ \E s \in Socks : HsRecvResp("B", s)
  \/ \E n \in Nodes, s \in Socks : HandshakeReadError(n, s)
  \/ \E n \in Nodes, s \in Socks : LoopTop(n, s)
  \/ \E n \in Nodes, s \in Socks : ReadFrame(n, s)
  \/ \E n \in Nodes, s \in Socks : ReadError(n, s)
  \/ \E n \in Nodes, s \in Socks : Teardown(n, s)
  \/ \E n \in Nodes : Sweep(n)
  \/ \E n \in Nodes : Dispatch(n)
  \/ \E n \in Nodes, p \in Nodes, ty \in SendTypes : SendMessage(n, p, ty)

\* a handler goroutine that can take a step is eventually scheduled
FairPair ==
  /\ WF_vars(\E s \in Socks : LoopTop("B", s))
  /\ WF_vars(\E s \in Socks : ReadFrame("B", s))

SpecPair == InitPair /\ [][NextPair]_vars /\ FairPair

(* ------------------ one streaming connection, flooded ------------------ *)
\* A started, X's socket 1 accepted and its handshake completed: the read loop
\* is at its top
InitDispatch ==
  /\ now = 0
  /\ net = [n \in Nodes |-> IF n = "A" THEN StartedNet ELSE FreshNet]
  /\ peers = [n \in Nodes |-> [p \in PeerIds |-> IF n = "A" /\ p = "X" THEN 1 ELSE NoConn]]
  /\ poolPeers = [n \in Nodes |-> [p \in PeerIds |-> IF n = "A" /\ p = "X" THEN 1 ELSE NoConn]]
  /\ topoPeers = [n \in Nodes |-> IF n = "A" THEN {"X"} ELSE {}]
  /\ connections = [n \in Nodes |-> IF n = "A" THEN {1} ELSE {}]
  /\ conn = [n \in Nodes |-> [c \in ConnIds |->
               IF n = "A" /\ c = 1 THEN [FreshConn EXCEPT !.pc = "loop"] ELSE FreshConn]]
  /\ wire = [s \in ConnIds |->
               IF s = 1
               THEN [used |-> TRUE, dialer |-> Ext, acceptor |-> "A", accepted |-> TRUE]
               ELSE FreshWire]
  /\ closedEnd = [s \in ConnIds |-> [d |-> FALSE, a |-> FALSE]]
  /\ inbox = [s \in ConnIds |-> [d |-> <<>>, a |-> <<>>]]
  /\ messageChan = [n \in Nodes |-> <<>>]
  /\ sent = 1
  /\ ret = Call("Start", "A", 0, "nil")
  /\ verified = [n \in Nodes |-> [c \in ConnIds |-> IF n = "A" /\ c = 1 THEN "X" ELSE "none"]]
  /\ poolCloses = [n \in Nodes |-> [c \in ConnIds |-> 0]]
  /\ onceRuns = [n \in Nodes |-> 0]
  /\ dropped = [n \in Nodes |-> 0]
  /\ TopoIdle
  /\ TaskIdle

\* the message types X floods the connection with: the five with a fixed handler
\* and one without
FloodTypes == FixedHandlerTypes \cup {MessageTypeDataSync}

\* X writes the next frame once the last one has been read
XFlood(s, type) ==
  /\ wire[s].used /\ wire[s].dialer = Ext
  /\ inbox[s]["a"] = <<>>
  /\ Write(inbox, closedEnd, s, Ext, NewMessage(type, "X", "X")).ok
  /\ inbox' = Write(inbox, closedEnd, s, Ext, NewMessage(type, "X", "X")).inbox
  /\ UNCHANGED <<topoVars, taskVars, now, netVars, peerVars, wire, closedEnd, poolVars, chanVars, conn, sent, ret>>

NextDispatch ==
  \/ \E ty \in FloodTypes : XFlood(1, ty)
  \/ LoopTop("A", 1)
  \/ ReadFrame("A", 1)
  \/ Dispatch("A")

SpecDispatch == InitDispatch /\ [][NextDispatch]_vars

(* ----------------------------- Broadcast ------------------------------ *)
\* pool.GetPeers(): the ids in the pool's peer table
PoolPeerIds(n) == {p \in PeerIds : poolPeers[n][p] # NoConn}

\* the orders in which a range over the peers can visit the set S
Orders(S) == {o \in [1..Cardinality(S) -> S] : \A i, j \in DOMAIN o : o[i] = o[j] => i = j}

\* Broadcast keeping the first error instead of the last
LastErrMut(prev, failed) == IF prev = NoConn THEN failed ELSE prev

\* lastErr = err: the error kept is that of the latest failed write, identified
\* here by the connection it was made on (NoConn: nil)
LastErr(prev, failed) == failed

\* the loop of Broadcast from position i of the visiting order, as the inbox and
\* lastErr it ends with
RECURSIVE BroadcastFrom(_, _, _, _, _, _)
BroadcastFrom(n, msg, order, i, ib, lastErr) ==
  IF i > Len(order) THEN [inbox |-> ib, err |-> lastErr]
  ELSE LET c == poolPeers[n][order[i]]
           w == Write(ib, closedEnd, c, n, msg)
       IN  BroadcastFrom(n, msg, order, i + 1, w.inbox,
                         IF w.ok THEN lastErr ELSE LastErr(lastErr, c))

\* Network.Broadcast(NewMessage(type, n, ...)), the range visiting the peers in order
Broadcast(n, type, order) ==
  LET r == BroadcastFrom(n, NewMessage(type, n, ""), order, 1, inbox, NoConn)
  IN  /\ sent < MaxSends
      /\ order \in Orders(PoolPeerIds(n))
      /\ inbox' = r.inbox
      /\ sent' = sent + 1
      /\ ret' = Call("Broadcast", n, r.err,
                     IF r.err = NoConn THEN "nil"
                     ELSE "failed to write message to connection")
      /\ UNCHANGED <<topoVars, taskVars, now, netVars, peerVars, wire, closedEnd, poolVars, chanVars, conn>>

\* A started, MaxPoolIds sockets accepted from node B, none pooled yet
InitBroadcast ==
  /\ now = 0
  /\ net = [n \in Nodes |-> IF n = "A" THEN StartedNet ELSE FreshNet]
  /\ peers = [n \in Nodes |-> [p \in PeerIds |-> NoConn]]
  /\ poolPeers = [n \in Nodes |-> [p \in PeerIds |-> NoConn]]
  /\ topoPeers = [n \in Nodes |-> {}]
  /\ connections = [n \in Nodes |-> {}]
  /\ conn = [n \in Nodes |-> [c \in ConnIds |-> FreshConn]]
  /\ wire = [s \in ConnIds |->
               IF s \in PoolIds
               THEN [used |-> TRUE, dialer |-> "B", acceptor |-> "A", accepted |-> TRUE]
               ELSE FreshWire]
  /\ closedEnd = [s \in ConnIds |-> [d |-> FALSE, a |-> FALSE]]
  /\ inbox = [s \in ConnIds |-> [d |-> <<>>, a |-> <<>>]]
  /\ messageChan = [n \in Nodes |-> <<>>]
  /\ sent = 0
  /\ ret = Call("Start", "A", 0, "nil")
  /\ verified = [n \in Nodes |-> [c \in ConnIds |-> "none"]]
  /\ poolCloses = [n \in Nodes |-> [c \in ConnIds |-> 0]]
  /\ onceRuns = [n \in Nodes |-> 0]
  /\ dropped = [n \in Nodes |-> 0]
  /\ TopoIdle
  /\ TaskIdle

\* the handshake on pooled connection c ends in registerPeer(p, c)
PoolRegister(p, c) ==
  LET reg == registerPeer("A", p, c)
  IN  /\ c \in connections["A"]
      /\ peers' = reg.peers
      /\ poolPeers' = reg.poolPeers
      /\ topoPeers' = reg.topoPeers
      /\ verified' = [verified EXCEPT !["A"][c] = p]
      /\ UNCHANGED <<topoVars, taskVars, now, netVars, sockVars, poolVars, chanVars, conn, sent, ret>>

\* the peers A broadcasts to
RemoteIds == PeerIds \ {"A"}

NextBroadcast ==
  \/ \E c \in PoolIds : PoolAdd(c)
  \/ \E c \in PoolIds : PoolRemove(c)
  \/ \E p \in RemoteIds, c \in PoolIds : PoolRegister(p, c)
  \/ \E o \in Orders(PoolPeerIds("A")) : Broadcast("A", MessageTypeDataSync, o)

SpecBroadcast == InitBroadcast /\ [][NextBroadcast]_vars

(* ------------------- sockets arriving at a busy pool ------------------- *)
\* A started, X's socket 1 pooled with its handshake done and its read loop
\* entered; X has dialled the other sockets, which A has not accepted yet
InitReject ==
  /\ now = 0
  /\ net = [n \in Nodes |-> IF n = "A" THEN StartedNet ELSE FreshNet]
  /\ peers = [n \in Nodes |-> [p \in PeerIds |-> IF n = "A" /\ p = "X" THEN 1 ELSE NoConn]]
  /\ poolPeers = [n \in Nodes |-> [p \in PeerIds |-> IF n = "A" /\ p = "X" THEN 1 ELSE NoConn]]
  /\ topoPeers = [n \in Nodes |-> IF n = "A" THEN {"X"} ELSE {}]
  /\ connections = [n \in Nodes |-> IF n = "A" THEN {1} ELSE {}]
  /\ conn = [n \in Nodes |-> [c \in ConnIds |->
               IF n = "A" /\ c = 1 THEN [FreshConn EXCEPT !.pc = "loop"] ELSE FreshConn]]
  /\ wire = [s \in ConnIds |->
               IF s \in PoolIds
               THEN [used |-> TRUE, dialer |-> Ext, acceptor |-> "A", accepted |-> s = 1]
               ELSE FreshWire]
  /\ closedEnd = [s \in ConnIds |-> [d |-> FALSE, a |-> FALSE]]
  /\ inbox = [s \in ConnIds |-> [d |-> <<>>, a |-> <<>>]]
  /\ messageChan = [n \in Nodes |-> <<>>]
  /\ sent = 1
  /\ ret = Call("Start", "A", 0, "nil")
  /\ verified = [n \in Nodes |-> [c \in ConnIds |-> IF n = "A" /\ c = 1 THEN "X" ELSE "none"]]
  /\ poolCloses = [n \in Nodes |-> [c \in ConnIds |-> 0]]
  /\ onceRuns = [n \in Nodes |-> 0]
  /\ dropped = [n \in Nodes |-> 0]
  /\ TopoIdle
  /\ TaskIdle

NextReject ==
  \/ \E s \in PoolIds : Accept("A", s)
  \/ \E s \in PoolIds : HandlerAdd("A", s)
  \/ \E s \in PoolIds : XWrite(s, HandshakeMessage("X", "X", "X", now))
  \/ \E s \in PoolIds : XClose(s)
  \/ \E s \in PoolIds : HsRecv("A", s)
  \/ \E s \in PoolIds : HsRespond("A", s)
  \/ \E s \in PoolIds : HandshakeReadError("A", s)
  \/ \E s \in PoolIds : LoopTop("A", s)
  \/ \E s \in PoolIds : ReadFrame("A", s)
  \/ \E s \in PoolIds : ReadError("A", s)
  \/ \E s \in PoolIds : Teardown("A", s)

SpecReject == InitReject /\ [][NextReject]_vars

(* ------------------ Manager and ReputationSystem calls ----------------- *)
\* Manager.AddPeer
AddPeer(i) ==
  /\ mgr' = [mgr EXCEPT ![i] = NewPeerInfo]
  /\ out' = Out("AddPeer", i, 0)
  /\ UNCHANGED <<p2pVars, taskVars, router>>

\* Manager.RemovePeer
RemovePeer(i) ==
  /\ mgr' = [mgr EXCEPT ![i] = NoPeer]
  /\ out' = Out("RemovePeer", i, 0)
  /\ UNCHANGED <<p2pVars, taskVars, router>>

\* the ConnectionQuality values handed to UpdatePeerQuality: the default, a
\* perfect link, all zeros, a negative bandwidth, a negative packet loss
Qualities ==
  {DefaultQuality, Quality(0, 100, 0, 0), Quality(0, 0, 0, 0),
   Quality(Second, -1000, 0, 0), Quality(0, 200, -50, 0)}

\* Manager.UpdatePeerQuality
UpdatePeerQuality(i, q) ==
  /\ out.updates < MaxUpdates
  /\ mgr' = IF mgr[i].known THEN [mgr EXCEPT ![i].Quality = q] ELSE mgr
  /\ out' = [Out("UpdatePeerQuality", i, 0) EXCEPT !.updates = @ + 1]
  /\ UNCHANGED <<p2pVars, taskVars, router>>

\* Manager.UpdatePeerReputation(i, reputation), as the new peers map
SetReputation(i, reputation) ==
  IF mgr[i].known THEN [mgr EXCEPT ![i].Reputation = reputation] ELSE mgr

\* a reputation update: the call op stores reputation under i
ReputationUpdate(op, i, reputation) ==
  /\ out.updates < MaxUpdates
  /\ mgr' = SetReputation(i, reputation)
  /\ out' = [Out(op, i, 0) EXCEPT !.updates = @ + 1]
  /\ UNCHANGED <<p2pVars, taskVars, router>>

\* the float64 arguments the reputation calls are made with
Scores == {-2 * Unit, Unit \div 2, 2 * Unit}
Rates == {0, Unit}
DecayRates == {Unit \div 2, -Unit, 3 * Unit}
ResponseTimes == {50, 500, 2 * Second}

\* Manager.UpdatePeerReputation called directly
UpdatePeerReputation(i, reputation) ==
  /\ i \in DOMAIN mgr
  /\ ReputationUpdate("UpdatePeerReputation", i, reputation)

\* the ReputationSystem updates return at once for a peer GetPeerInfo does not
\* find
UpdateReputationBasedOnBehavior(i, behaviorScore) ==
  /\ mgr[i].known
  /\ ReputationUpdate("UpdateReputationBasedOnBehavior", i,
                      BehaviorReputation(mgr[i].Reputation, behaviorScore))

UpdateReputationBasedOnPerformance(i, successRate, responseTime) ==
  /\ mgr[i].known
  /\ ReputationUpdate("UpdateReputationBasedOnPerformance", i,
                      BehaviorReputation(mgr[i].Reputation,
                                         PerformanceScore(successRate, responseTime)))

UpdateReputationBasedOnReliability(i, uptimeRatio, messageDeliveryRate) ==
  /\ mgr[i].known
  /\ ReputationUpdate("UpdateReputationBasedOnReliability", i,
                      BehaviorReputation(mgr[i].Reputation,
                                         ReliabilityScore(uptimeRatio, messageDeliveryRate)))

DecayReputation(i, decayRate) ==
  /\ mgr[i].known
  /\ ReputationUpdate("DecayReputation", i, DecayedReputation(mgr[i].Reputation, decayRate))

\* a call of Manager.GetBestPeers(n)
BestPeersCall(n) ==
  /\ \E r \in GetBestPeers(n) : out' = Out("GetBestPeers", n, r)
  /\ UNCHANGED <<p2pVars, taskVars, mgr, router>>

\* a call of Manager.GetOptimalPeersForBroadcast(exclude, max)
BroadcastPeersCall(exclude, max) ==
  /\ \E r \in GetOptimalPeersForBroadcast(exclude, max) :
       out' = Out("GetOptimalPeersForBroadcast", <<exclude, max>>, r)
  /\ UNCHANGED <<p2pVars, taskVars, mgr, router>>

\* a Manager with its ReputationSystem, called in any order
NextRank ==
  \/ \E i \in TopoIds : AddPeer(i)
  \/ \E i \in TopoIds : RemovePeer(i)
  \/ \E i \in TopoIds, q \in Qualities : UpdatePeerQuality(i, q)
  \/ \E i \in TopoIds, v \in Scores : UpdatePeerReputation(i, v)
  \/ \E i \in TopoIds, b \in Scores : UpdateReputationBasedOnBehavior(i, b)
  \/ \E i \in TopoIds, sr \in Rates, rt \in ResponseTimes :
       UpdateReputationBasedOnPerformance(i, sr, rt)
  \/ \E i \in TopoIds, up \in Rates, dl \in Rates :
       UpdateReputationBasedOnReliability(i, up, dl)
  \/ \E i \in TopoIds, d \in DecayRates : DecayReputation(i, d)
  \/ \E n \in 0..(MaxTopoIds + 1) : BestPeersCall(n)
  \/ \E e \in TopoIds, max \in 0..MaxTopoIds : BroadcastPeersCall(e, max)

SpecRank == Init /\ [][NextRank]_vars

(* ------------------------ the topology by peer count ------------------- *)
\* enough peer ids to pass meshThreshold
CountIds == 1..(meshThreshold + MaxExtraPeers)

\* a call of Manager.GetTopologyType
TopologyTypeCall ==
  /\ out' = Out("GetTopologyType", 0, GetTopologyType(Cardinality(Known)))
  /\ UNCHANGED <<p2pVars, taskVars, mgr, router>>

\* the sum of f over the peers in S
RECURSIVE SumOver(_, _)
SumOver(f, S) ==
  IF S = {} THEN 0
  ELSE LET i == CHOOSE x \in S : TRUE IN f[i] + SumOver(f, S \ {i})

\* Manager.GetNetworkMetrics (max_peers, fixed at NewManager, left out)
GetNetworkMetrics ==
  LET totalPeers == Cardinality(Known)
      connectedPeers == Cardinality({i \in Known : mgr[i].Connected})
      latency == [i \in Known |-> mgr[i].Quality.Latency]
      bandwidth == [i \in Known |-> mgr[i].Quality.Bandwidth * Unit]
  IN  [total_peers |-> totalPeers,
       connected_peers |-> connectedPeers,
       topology_type |-> GetTopologyType(totalPeers),
       avg_latency |-> IF totalPeers > 0 THEN SumOver(latency, Known) \div totalPeers ELSE 0,
       avg_bandwidth |-> IF connectedPeers > 0
                           THEN SumOver(bandwidth, Known) \div connectedPeers ELSE 0]

\* a call of Manager.GetNetworkMetrics
NetworkMetricsCall ==
  /\ out' = Out("GetNetworkMetrics", 0, GetNetworkMetrics)
  /\ UNCHANGED <<p2pVars, taskVars, mgr, router>>

InitCount ==
  /\ NetIdle
  /\ TaskIdle
  /\ mgr = [i \in CountIds |-> NoPeer]
  /\ router = [strategy |-> Direct, routeCache |-> <<>>]
  /\ out = NoOut

NextCount ==
  \/ \E i \in CountIds : AddPeer(i)
  \/ \E i \in CountIds : RemovePeer(i)
  \/ TopologyTypeCall
  \/ NetworkMetricsCall

SpecCount == InitCount /\ [][NextCount]_vars

(* -------------------------------- Router ------------------------------- *)
\* the routes a strategy may compute; more than one where GetBestPeers may
\* order equal scores either way
directRoute(targetID) == IF mgr[targetID].known THEN {<<targetID>>} ELSE {<<>>}

gossipRoute(targetID) == GetBestPeers(3)

\* a router that goes through the best peers even to a peer it knows
shortestPathRouteMut(targetID) == GetBestPeers(2)

shortestPathRoute(targetID) ==
  IF mgr[targetID].known THEN {<<targetID>>} ELSE GetBestPeers(2)

\* the switch on r.strategy in RouteMessage
ComputeRoutes(strategy, targetID) ==
  CASE strategy = Direct -> directRoute(targetID)
    [] strategy = Gossip -> gossipRoute(targetID)
    [] strategy = ShortestPath -> shortestPathRoute(targetID)
    [] OTHER -> directRoute(targetID)

Targets == 1..MaxTargets

\* Router.RouteMessage
RouteMessage(targetID) ==
  /\ IF targetID \in DOMAIN router.routeCache
       THEN /\ out' = Out("RouteMessage", targetID, router.routeCache[targetID])
            /\ UNCHANGED router
       ELSE \E route \in ComputeRoutes(router.strategy, targetID) :
              /\ router' = [router EXCEPT !.routeCache =
                              [x \in DOMAIN @ \cup {targetID} |->
                                 IF x = targetID THEN route ELSE @[x]]]
              /\ out' = Out("RouteMessage", targetID, route)
  /\ UNCHANGED <<p2pVars, taskVars, mgr>>

\* Router.UpdateRouteCache
UpdateRouteCache ==
  /\ router' = [router EXCEPT !.routeCache = <<>>]
  /\ out' = Out("UpdateRouteCache", 0, 0)
  /\ UNCHANGED <<p2pVars, taskVars, mgr>>

\* NewRouter over a new Manager, with any of the strategies
InitRoute ==
  /\ NetIdle
  /\ TaskIdle
  /\ mgr = [i \in TopoIds |-> NoPeer]
  /\ router \in {[strategy |-> s, routeCache |-> <<>>] : s \in {Direct, Gossip, ShortestPath}}
  /\ out = NoOut

NextRoute ==
  \/ \E i \in TopoIds : AddPeer(i)
  \/ \E i \in TopoIds : RemovePeer(i)
  \/ \E i \in TopoIds : UpdatePeerQuality(i, Quality(0, 100, 0, 0))
  \/ \E targetID \in Targets : RouteMessage(targetID)
  \/ UpdateRouteCache

SpecRoute == InitRoute /\ [][NextRoute]_vars

(* ------------------- calls of the message functions -------------------- *)
\* the clock moves on
Sleep ==
  /\ now < MaxTicks
  /\ now' = now + 1
  /\ out' = Out("Sleep", 0, 0)
  /\ UNCHANGED <<net, peers, poolPeers, topoPeers, connections, conn, wire, closedEnd,
                 inbox, messageChan, sent, ret, verified, poolCloses, onceRuns,
                 dropped, mgr, router, taskVars>>

\* timestamps within two seconds of the edges of the window and of the int64
\* range
EdgeTimestamps ==
  {ts \in MinInt..MaxInt :
     \E e \in {MinInt, -HandshakeWindow, 0, HandshakeWindow, MaxInt} : ts - e \in -2..2}

\* handshake messages with these timestamps: signed by the embedded key under
\* the sender's own id or under another one, signed by another key, and without
\* a key that decodes
HandshakeInputs ==
  {HandshakeMessage(h[1], h[2], h[3], ts) :
     h \in {<<"X", "X", "X">>, <<"B", "X", "X">>, <<"B", "B", "X">>, <<"X", "", "X">>},
     ts \in EdgeTimestamps}

\* a call of HandshakeManager.VerifyHandshakeMessage
VerifyCall(m) ==
  /\ out' = Out("VerifyHandshakeMessage", m,
                IF VerifyHandshakeMessage(m) THEN "nil" ELSE "error")
  /\ UNCHANGED <<p2pVars, taskVars, mgr, router>>

\* messages with each field empty and not, at several timestamps, with and
\* without a payload
MessageInputs ==
  {[Message(type, id, sender, payload) EXCEPT !.ts = ts] :
     type \in {"", MessageTypeHello, MessageTypeDataSync}, id \in {"", "id"},
     sender \in {"", "A", "B"}, payload \in {"", "X"}, ts \in 0..2}

\* a call of Message.Validate
ValidateCall(m) ==
  /\ out' = Out("Validate", m, IF Validate(m) THEN "nil" ELSE "error")
  /\ UNCHANGED <<p2pVars, taskVars, mgr, router>>

NextCalls ==
  \/ Sleep
  \/ \E m \in HandshakeInputs : VerifyCall(m)
  \/ \E m \in MessageInputs : ValidateCall(m)

SpecCalls == Init /\ [][NextCalls]_vars

(* ----------------- tasks calling one Manager concurrently --------------- *)
Tasks == 1..MaxTasks

\* the calls a task makes on the Manager
ManagerCalls ==
  {[op |-> o, id |-> i] : o \in {"AddPeer", "RemovePeer"}, i \in TopoIds}
    \cup {[op |-> "GetBestPeers", id |-> 0]}

\* a task about to make the first call of its program
NewTask(prog) == [prog |-> prog, ip |-> 1, pc |-> "call", seen |-> {}, result |-> <<>>]

\* the call task t is in, or is about to make
CurrentCall(t) == task[t].prog[task[t].ip]

\* a Manager whose Lock waits for nobody
CanLockMut == TRUE

\* sync.RWMutex: Lock waits until no task holds the lock either way, RLock until
\* no task holds the write lock
CanLock == mu.writer = NoTask /\ mu.readers = {}
CanRLock == mu.writer = NoTask

\* AddPeer / RemovePeer: t.mu.Lock()
Lock(t) ==
  /\ task[t].pc = "call"
  /\ task[t].ip <= Len(task[t].prog)
  /\ CurrentCall(t).op \in {"AddPeer", "RemovePeer"}
  /\ CanLock
  /\ mu' = [mu EXCEPT !.writer = t]
  /\ task' = [task EXCEPT ![t].pc = "write"]
  /\ UNCHANGED <<p2pVars, topoVars, node>>

\* AddPeer / RemovePeer: the assignment to, or the delete from, t.peers
MapWrite(t) ==
  /\ task[t].pc = "write"
  /\ mgr' = [mgr EXCEPT ![CurrentCall(t).id] =
               IF CurrentCall(t).op = "AddPeer" THEN NewPeerInfo ELSE NoPeer]
  /\ task' = [task EXCEPT ![t].pc = "unlock"]
  /\ UNCHANGED <<p2pVars, router, out, node, mu>>

\* AddPeer / RemovePeer: the deferred t.mu.Unlock(), and the return
Unlock(t) ==
  /\ task[t].pc = "unlock"
  /\ mu' = [mu EXCEPT !.writer = NoTask]
  /\ task' = [task EXCEPT ![t].pc = "call", ![t].ip = @ + 1]
  /\ UNCHANGED <<p2pVars, topoVars, node>>

\* GetBestPeers: t.mu.RLock()
RLock(t) ==
  /\ task[t].pc = "call"
  /\ task[t].ip <= Len(task[t].prog)
  /\ CurrentCall(t).op = "GetBestPeers"
  /\ CanRLock
  /\ mu' = [mu EXCEPT !.readers = @ \cup {t}]
  /\ task' = [task EXCEPT ![t].pc = "range", ![t].seen = {}]
  /\ UNCHANGED <<p2pVars, topoVars, node>>

SeenIds(t) == {e[1] : e \in task[t].seen}

\* GetBestPeers: one turn of the range over t.peers, which scores a peer
RangeNext(t, i) ==
  /\ task[t].pc = "range"
  /\ i \in Known \ SeenIds(t)
  /\ task' = [task EXCEPT ![t].seen = @ \cup {<<i, Score(i)>>}]
  /\ UNCHANGED <<p2pVars, topoVars, node, mu>>

\* the orders sort.Slice may leave the scored peers in
RankingsOf(seen) ==
  {o \in [1..Cardinality(seen) -> seen] :
     /\ \A j, k \in DOMAIN o : j # k => o[j] # o[k]
     /\ \A j \in 1..(Cardinality(seen) - 1) : o[j][2] >= o[j + 1][2]}

\* GetBestPeers: the range is over; the sort and the copy of the first n ids
RangeEnd(t) ==
  /\ task[t].pc = "range"
  /\ Known \ SeenIds(t) = {}
  /\ \E o \in RankingsOf(task[t].seen) :
       task' = [task EXCEPT ![t].pc = "runlock",
                            ![t].result = [j \in 1..Min(MaxTopoIds, Len(o)) |-> o[j][1]]]
  /\ UNCHANGED <<p2pVars, topoVars, node, mu>>

\* GetBestPeers: the deferred t.mu.RUnlock(), and the return
RUnlock(t) ==
  /\ task[t].pc = "runlock"
  /\ mu' = [mu EXCEPT !.readers = @ \ {t}]
  /\ task' = [task EXCEPT ![t].pc = "call", ![t].ip = @ + 1]
  /\ UNCHANGED <<p2pVars, topoVars, node>>

\* each task is given its calls
InitTasks ==
  /\ NetIdle
  /\ TopoIdle
  /\ node = NewNode
  /\ mu = FreeMutex
  /\ task \in [Tasks -> {NewTask(prog) : prog \in [1..MaxCalls -> ManagerCalls]}]

NextTasks ==
  \E t \in Tasks :
    \/ Lock(t)
    \/ MapWrite(t)
    \/ Unlock(t)
    \/ RLock(t)
    \/ \E i \in TopoIds : RangeNext(t, i)
    \/ RangeEnd(t)
    \/ RUnlock(t)

SpecTasks == InitTasks /\ [][NextTasks]_vars

(* ------------------------------ node.Node ------------------------------ *)
\* a task about to make the first of its calls on the Node
NewCaller(prog) == [prog |-> prog, ip |-> 1, pc |-> "call", rets |-> <<>>]

\* task t is about to call op
Calls(t, op) ==
  /\ ~node.panicked
  /\ task[t].pc = "call"
  /\ task[t].ip <= Len(task[t].prog)
  /\ task[t].prog[task[t].ip] = op

\* task t is at pc inside a call
At(t, pc) == ~node.panicked /\ task[t].pc = pc

\* the call of task t returns err
Return(t, err) ==
  [task EXCEPT ![t].pc = "call", ![t].ip = @ + 1, ![t].rets = Append(@, err)]

\* Start: the test of n.Status()
StartRefused == node.status # StatusStopped

StartCheck(t) ==
  /\ Calls(t, "Start")
  /\ task' = IF StartRefused THEN Return(t, "node already running or starting")
             ELSE [task EXCEPT ![t].pc = "starting"]
  /\ UNCHANGED <<p2pVars, topoVars, node, mu>>

\* Start: setStatus(StatusStarting); initialize returns nil
StartSetStarting(t) ==
  /\ At(t, "starting")
  /\ node' = [node EXCEPT !.status = StatusStarting]
  /\ task' = [task EXCEPT ![t].pc = "go"]
  /\ UNCHANGED <<p2pVars, topoVars, mu>>

\* Start: go n.run(ctx)
StartGo(t) ==
  /\ At(t, "go")
  /\ node' = [node EXCEPT !.runs = @ + 1]
  /\ task' = [task EXCEPT ![t].pc = "started"]
  /\ UNCHANGED <<p2pVars, topoVars, mu>>

\* Start: setStatus(StatusRunning) and return nil
StartSetRunning(t) ==
  /\ At(t, "started")
  /\ node' = [node EXCEPT !.status = StatusRunning]
  /\ task' = Return(t, "nil")
  /\ UNCHANGED <<p2pVars, topoVars, mu>>

\* run: ctx.Done() or stopCh is ready, run returns and its deferred
\* close(n.doneCh) runs, which panics on a channel that is closed already
RunExit ==
  /\ ~node.panicked
  /\ node.runs > 0
  /\ node.ctxDone \/ node.stopCh = "closed"
  /\ node' = [node EXCEPT !.runs = @ - 1,
                          !.doneCh = "closed",
                          !.panicked = (node.doneCh = "closed")]
  /\ UNCHANGED <<p2pVars, topoVars, task, mu>>

\* the owner of the context given to Start cancels it
CancelCtx ==
  /\ ~node.panicked
  /\ ~node.ctxDone
  /\ node' = [node EXCEPT !.ctxDone = TRUE]
  /\ UNCHANGED <<p2pVars, topoVars, task, mu>>

\* Stop: the test of n.Status()
StopCheck(t) ==
  /\ Calls(t, "Stop")
  /\ task' = IF node.status # StatusRunning THEN Return(t, "node is not running")
             ELSE [task EXCEPT ![t].pc = "stopping"]
  /\ UNCHANGED <<p2pVars, topoVars, node, mu>>

\* Stop: setStatus(StatusStopping)
StopSetStopping(t) ==
  /\ At(t, "stopping")
  /\ node' = [node EXCEPT !.status = StatusStopping]
  /\ task' = [task EXCEPT ![t].pc = "close"]
  /\ UNCHANGED <<p2pVars, topoVars, mu>>

\* Stop: close(n.stopCh), which panics on a channel that is closed already
StopClose(t) ==
  /\ At(t, "close")
  /\ node' = [node EXCEPT !.stopCh = "closed", !.panicked = (node.stopCh = "closed")]
  /\ task' = [task EXCEPT ![t].pc = "wait"]
  /\ UNCHANGED <<p2pVars, topoVars, mu>>

\* Stop: doneCh is ready in the select (run returns well within the 10 s of the
\* shutdown timer), then setStatus(StatusStopped) and return nil
StopSetStopped(t) ==
  /\ At(t, "wait")
  /\ node.doneCh = "closed"
  /\ node' = [node EXCEPT !.status = StatusStopped]
  /\ task' = Return(t, "nil")
  /\ UNCHANGED <<p2pVars, topoVars, mu>>

\* Wait: the receive from doneCh
WaitReturn(t) ==
  /\ Calls(t, "Wait")
  /\ node.doneCh = "closed"
  /\ task' = Return(t, "returned")
  /\ UNCHANGED <<p2pVars, topoVars, node, mu>>

\* each task is given its calls on one new Node
InitNode ==
  /\ NetIdle
  /\ TopoIdle
  /\ node = NewNode
  /\ mu = FreeMutex
  /\ task \in [Tasks -> {NewCaller(prog) : prog \in [1..MaxCalls -> {"Start", "Stop", "Wait"}]}]

NextNode ==
  \/ RunExit
  \/ CancelCtx
  \/ \E t \in Tasks :
       \/ StartCheck(t)
       \/ StartSetStarting(t)
       \/ StartGo(t)
       \/ StartSetRunning(t)
       \/ StopCheck(t)
       \/ StopSetStopping(t)
       \/ StopClose(t)
       \/ StopSetStopped(t)
       \/ WaitReturn(t)

SpecNode == InitNode /\ [][NextNode]_vars

(* =============================== claims ================================ *)
allButRet == <<now, net, peers, poolPeers, topoPeers, connections, conn, wire,
               closedEnd, inbox, messageChan, sent, verified, poolCloses, onceRuns,
               dropped, mgr, router, out>>

\* Network.Status().Listening
StatusListening(n) == net[n].listener # "nil"

\* C1: every peer id in the Network peer table and in the pool's peer table is the
\* node id of a handshake that VerifyHandshakeMessage accepted on the connection
\* the entry is bound to; nothing else, and no HELLO frame, creates or rebinds one.
C1_PeerEntriesAreVerified ==
  \A n \in Nodes, p \in PeerIds :
    /\ peers[n][p] # NoConn => verified[n][peers[n][p]] = p
    /\ poolPeers[n][p] # NoConn => verified[n][poolPeers[n][p]] = p

\* C2: the pool never holds more than maxConnections connections, and an
\* AddConnection issued while it holds maxConnections returns the capacity error
\* and leaves the pool as it was.
C2_PoolStaysWithinCapacity ==
  /\ [](Cardinality(connections["A"]) <= maxConnections)
  /\ [][\A c \in PoolIds :
          (PoolAdd(c) /\ Cardinality(connections["A"]) = maxConnections)
            => /\ ret' = Call("AddConnection", "A", c, "connection pool at maximum capacity")
               /\ UNCHANGED allButRet]_vars

C2_Witness ==
  /\ ret.op = "AddConnection"
  /\ ret.err = "connection pool at maximum capacity"
  /\ Cardinality(connections["A"]) = maxConnections

\* C3: the shutdown body runs at most once however often Stop is called, and a
\* Stop call that returns on a network whose Start succeeded leaves the context
\* cancelled, the listener closed, every pooled connection closed and the peer
\* table empty.
C3_StopShutsDownStartedNetwork ==
  /\ [](\A n \in Nodes : onceRuns[n] <= 1)
  /\ [][\A n \in Nodes :
          (Stop(n) /\ net[n].launched > 0)
            => /\ net'[n].ctx = "cancelled"
               /\ net'[n].listener = "closed"
               /\ \A c \in connections[n] : closedEnd'[c][SideOf(c, n)]
               /\ \A p \in PeerIds : peers'[n][p] = NoConn]_vars

\* C4: a Start on a network already started fails with "network already started"
\* and changes nothing (no listener bound, context kept, no loops launched);
\* Status().Listening is false until a Start has succeeded and true from then on.
C4_SecondStartRejected ==
  /\ [](\A n \in Nodes : StatusListening(n) <=> net[n].launched > 0)
  /\ [](\A n \in Nodes : net[n].launched <= 1)
  /\ [][\A n \in Nodes :
          (Start(n) /\ net[n].launched > 0)
            => /\ ret' = Call("Start", n, 0, "network already started")
               /\ UNCHANGED allButRet]_vars

C4_Witness == ret = Call("Start", "A", 0, "network already started")

\* C5: Stop on a network that was never started returns an error (the first Stop
\* made on it: no Stop has run before); a Stop made after a Stop that already ran,
\* started or not, returns no error and changes no state.
C5_StopBeforeStartAndAfterStop ==
  [][\A n \in Nodes :
       Stop(n)
         => /\ (onceRuns[n] = 0 /\ net[n].launched = 0)
                 => ret' = Call("Stop", n, 0, "network not started")
            /\ onceRuns[n] > 0
                 => (ret' = Call("Stop", n, 0, "nil") /\ UNCHANGED allButRet)]_vars

C5_Witness ==
  /\ ret = Call("Stop", "A", 0, "nil")
  /\ onceRuns["A"] = 1
  /\ net["A"].launched = 0

\* C6: once the handshake on a connection has failed and its handler has finished,
\* no peer entry registered over that connection exists in the Network peer table,
\* the pool's peer table or the topology Manager, and the connection is closed and
\* out of the pool.
C6_FailedHandshakeRegistersNothing ==
  \A n \in Nodes, c \in Socks :
    (conn[n][c].hsFailed /\ conn[n][c].pc = "done")
      => /\ \A p \in PeerIds : peers[n][p] # c /\ poolPeers[n][p] # c
         /\ verified[n][c] \notin topoPeers[n]
         /\ c \notin connections[n]
         /\ closedEnd[c][SideOf(c, n)]

\* no handler of n is between two steps: each is absent, blocked in a read, or done
Quiescent(n) ==
  \A c \in Socks : conn[n][c].pc \in {"none", "recvHs", "recvResp", "reading", "done"}

\* C7: a peer entry goes away with its connection: in every quiescent state each
\* peer in the peer table references a connection that is still in the pool.
C7_PeersReferencePooledConnections ==
  \A n \in Nodes :
    Quiescent(n) => \A p \in PeerIds : peers[n][p] # NoConn => peers[n][p] \in connections[n]

\* B dialled A on socket s and both sides' performSecureHandshake returned nil
BothHandshakesComplete(s) ==
  /\ wire[s].dialer = "B" /\ wire[s].acceptor = "A"
  /\ verified["A"][s] = "B" /\ conn["A"][s].pc \notin {"sendResp"}
  /\ verified["B"][s] = "A"

\* B's read loop is running on socket s
Streaming(n, s) == conn[n][s].pc \in {"loop", "reading"}

\* C8 as stated: once B has dialled A and both handshakes are complete, each peer
\* table holds exactly one entry, for the other node, and any later SendMessage
\* from A to B is delivered to B's read loop.
C8_SendAfterHandshakeIsDelivered ==
  /\ [](\A s \in Socks :
          BothHandshakesComplete(s)
            => /\ {p \in PeerIds : peers["A"][p] # NoConn} = {"B"}
               /\ {p \in PeerIds : peers["B"][p] # NoConn} = {"A"})
  /\ [][\A s \in Socks, ty \in SendTypes :
          (SendMessage("A", "B", ty) /\ BothHandshakesComplete(s) /\ peers["A"]["B"] = s)
            => inbox'[s]["d"] = Append(inbox[s]["d"], NewMessage(ty, "A", ""))]_vars

\* C8, amended: once B has dialled A and both handshakes are complete, each peer
\* table holds exactly one entry, for the other node; a later SendMessage from A
\* to B made while neither side has closed the connection is delivered to B, B's
\* read loop reads it unless B closes the connection first, and every frame B's
\* read loop reads sets the connection's lastSeen to the time of the read.
C8_SendOnOpenConnectionIsReceived ==
  /\ [](\A s \in Socks :
          BothHandshakesComplete(s)
            => /\ {p \in PeerIds : peers["A"][p] # NoConn} = {"B"}
               /\ {p \in PeerIds : peers["B"][p] # NoConn} = {"A"})
  /\ [][\A s \in Socks, ty \in SendTypes :
          (/\ SendMessage("A", "B", ty)
           /\ BothHandshakesComplete(s) /\ peers["A"]["B"] = s
           /\ ~closedEnd[s]["a"] /\ ~closedEnd[s]["d"])
            => inbox'[s]["d"] = Append(inbox[s]["d"], NewMessage(ty, "A", ""))]_vars
  /\ [][\A s \in Socks :
          ReadFrame("B", s)
            => /\ conn'["B"][s].LastSeen = now
               /\ conn'["B"][s].LastSeen >= conn["B"][s].LastSeen
               /\ inbox'[s]["d"] = Tail(inbox[s]["d"])]_vars
  /\ \A s \in Socks :
       (BothHandshakesComplete(s) /\ Streaming("B", s) /\ inbox[s]["d"] # <<>>)
         ~> (inbox[s]["d"] = <<>> \/ closedEnd[s]["d"] \/ ~Streaming("B", s))

C8_Witness ==
  \E s \in Socks :
    /\ BothHandshakesComplete(s)
    /\ messageChan["B"] # <<>>
    /\ now > 0
    /\ conn["B"][s].LastSeen = now

\* C9: RemoveConnection applied again to the pool it has just produced changes
\* nothing, RemoveConnection of an id that is not pooled changes nothing, and each
\* pooled connection is closed by the pool at most once.
C9_RemoveConnectionIdempotent ==
  /\ [](\A c \in PoolIds : poolCloses["A"][c] <= 1)
  /\ [](\A c \in PoolIds :
          c \notin connections["A"]
            => RemoveConnection("A", c, closedEnd) =
                 [connections |-> connections, closedEnd |-> closedEnd,
                  poolCloses |-> poolCloses])
  /\ [][\A c \in PoolIds :
          PoolRemove(c)
            => /\ c \notin connections'["A"]
               /\ c \notin connections["A"]
                    => UNCHANGED <<connections, closedEnd, poolCloses, conn>>]_vars

\* RemoveConnection has been called on an id that was never pooled, after another
\* connection had been removed and a third evicted or removed
C9_Witness ==
  /\ ret.op = "RemoveConnection"
  /\ ret.arg \notin connections["A"]
  /\ poolCloses["A"][ret.arg] = 0
  /\ ~closedEnd[ret.arg]["a"]
  /\ \E c \in PoolIds : poolCloses["A"][c] = 1

\* C10: the backlog never holds more than DefaultMessageQueueSize messages and
\* never one of a fixed-handler type; the read loop, handed a valid message of
\* another type, appends it when the backlog has room and otherwise drops it, and
\* in both cases returns to the top of its loop: a full backlog never disables it.
C10_BacklogDropsWhenFull ==
  /\ [](/\ Len(messageChan["A"]) <= DefaultMessageQueueSize
        /\ \A i \in 1..Len(messageChan["A"]) : messageChan["A"][i] \notin FixedHandlerTypes)
  /\ [](\A s \in Socks :
          (conn["A"][s].pc = "reading" /\ inbox[s]["a"] # <<>> /\ ~closedEnd[s]["a"])
            => ENABLED ReadFrame("A", s))
  /\ [][\A s \in Socks :
          (ReadFrame("A", s) /\ Validate(Head(inbox[s]["a"]))
             /\ Head(inbox[s]["a"]).type \notin FixedHandlerTypes)
            => /\ conn'["A"][s].pc = "loop"
               /\ IF Len(messageChan["A"]) < DefaultMessageQueueSize
                  THEN /\ messageChan'["A"] = Append(messageChan["A"], Head(inbox[s]["a"]).type)
                       /\ dropped' = dropped
                  ELSE /\ messageChan' = messageChan
                       /\ dropped'["A"] = Bump(dropped["A"])]_vars

C10_Witness ==
  /\ Len(messageChan["A"]) = DefaultMessageQueueSize
  /\ dropped["A"] > 0

\* the positions of the visiting order whose write fails: A has closed the
\* connection of the peer visited there
FailedAt(order) == {i \in DOMAIN order : closedEnd[poolPeers["A"][order[i]]]["a"]}

\* C11: Broadcast makes one write per known peer, whatever failed before: every
\* open connection receives one frame per peer bound to it; it returns nil iff no
\* write failed, and otherwise the error of the last write that failed.
C11_BroadcastBestEffort ==
  [][\A o \in Orders(PoolPeerIds("A")) :
       Broadcast("A", MessageTypeDataSync, o)
         => /\ (ret'.err = "nil") <=> (FailedAt(o) = {})
            /\ FailedAt(o) # {}
                 => ret'.arg = poolPeers["A"][o[CHOOSE i \in FailedAt(o) :
                                                  \A j \in FailedAt(o) : j <= i]]
            /\ \A c \in PoolIds :
                 Len(inbox'[c]["d"]) =
                   Len(inbox[c]["d"]) +
                     (IF closedEnd[c]["a"] THEN 0
                      ELSE Cardinality({p \in PoolPeerIds("A") : poolPeers["A"][p] = c}))]_vars

\* a Broadcast has returned the error of a failed write and has written to the
\* peer on another, open, connection all the same
C11_Witness ==
  /\ ret.op = "Broadcast"
  /\ ret.err # "nil"
  /\ closedEnd[ret.arg]["a"]
  /\ \E p \in PoolPeerIds("A") :
       /\ ~closedEnd[poolPeers["A"][p]]["a"]
       /\ inbox[poolPeers["A"][p]]["d"] # <<>>

\* the handler of socket s found the pool full: it has returned without the
\* connection ever having been pooled
Rejected(n, s) ==
  conn[n][s].pc = "done" /\ poolCloses[n][s] = 0 /\ ~conn[n][s].hsFailed

\* C12: a handler that finds the pool full closes its socket and returns in that
\* one step, reading and writing nothing, registering no peer and leaving the
\* pool as it was; nothing is ever registered over a socket rejected this way.
C12_FullPoolRejectsSocket ==
  /\ [][\A s \in PoolIds :
          (HandlerAdd("A", s) /\ Cardinality(connections["A"]) >= maxConnections)
            => /\ closedEnd'[s]["a"]
               /\ conn'["A"][s].pc = "done"
               /\ UNCHANGED <<connections, peers, poolPeers, topoPeers, verified, inbox>>]_vars
  /\ [](\A s \in PoolIds :
          Rejected("A", s)
            => /\ closedEnd[s]["a"]
               /\ s \notin connections["A"]
               /\ verified["A"][s] = "none"
               /\ \A p \in PeerIds : peers["A"][p] # s /\ poolPeers["A"][p] # s)

\* a socket on which X had already written its handshake has been rejected by a
\* full pool, the handshake still unread
C12_Witness ==
  \E s \in PoolIds :
    /\ Rejected("A", s)
    /\ Cardinality(connections["A"]) = maxConnections
    /\ inbox[s]["a"] # <<>>

\* C13: whatever reputation updates are made (the three ReputationSystem
\* updates, DecayReputation with any rate, Manager.UpdatePeerReputation with
\* any value), the reputation stored for a peer lies in [-1, 1].
C13_ReputationWithinBounds ==
  \A i \in Known : -Unit <= mgr[i].Reputation /\ mgr[i].Reputation <= Unit

\* C14: the quality score of every ConnectionQuality a peer is given, zero
\* and negative fields included, lies in [0, 1].
C14_QualityScoreWithinUnit ==
  \A i \in Known :
    LET s == calculateQualityScore(mgr[i].Quality) IN 0 <= s /\ s <= Unit

\* C15: every call GetBestPeers(n) returns distinct ids of known peers, with
\* scores that never increase along the list, exactly min(n, number of known
\* peers) of them, and leaves out no peer that scores strictly higher than
\* one it returns.
C15_BestPeersAreTheTopScores ==
  [][(out'.op = "GetBestPeers" /\ BestPeersCall(out'.arg)) =>
         LET r == out'.val
             n == out'.arg
             returned == {r[j] : j \in 1..Len(r)}
         IN  /\ returned \subseteq Known
             /\ \A j, k \in 1..Len(r) : j # k => r[j] # r[k]
             /\ \A j \in 1..(Len(r) - 1) : Score(r[j]) >= Score(r[j + 1])
             /\ Len(r) = Min(n, Cardinality(Known))
             /\ \A i \in Known \ returned, k \in returned : Score(i) <= Score(k)]_vars

\* GetBestPeers(2) has just returned two of three peers with three different
\* scores
C15_Witness ==
  /\ out.op = "GetBestPeers"
  /\ out.arg = 2
  /\ Cardinality(Known) = 3
  /\ Len(out.val) = 2
  /\ Score(out.val[1]) > Score(out.val[2])
  /\ \E i \in Known : Score(i) < Score(out.val[2])

\* C16: GetBestPeers is deterministic: a second call with the same n on the
\* same Manager state returns the same list in the same order as the first.
C16_BestPeersDeterministic ==
  [][(out.op = "GetBestPeers" /\ out'.op = "GetBestPeers" /\ out'.arg = out.arg
        /\ BestPeersCall(out.arg))
       => out'.val = out.val]_vars

\* C17: every call GetOptimalPeersForBroadcast(exclude, max) returns at most
\* max ids, never the excluded id nor a peer that is not connected, in
\* best-peer rank order (scores never increase, nobody eligible and left out
\* outscores a returned peer), and min(max, number of eligible peers) of them.
C17_BroadcastPeersSkipExcluded ==
  [][(out'.op = "GetOptimalPeersForBroadcast"
        /\ BroadcastPeersCall(out'.arg[1], out'.arg[2])) =>
         LET r == out'.val
             e == out'.arg[1]
             max == out'.arg[2]
             returned == {r[j] : j \in 1..Len(r)}
             eligible == {i \in Known : i # e /\ mgr[i].Connected}
         IN  /\ Len(r) <= max
             /\ e \notin returned
             /\ returned \subseteq eligible
             /\ \A j, k \in 1..Len(r) : j # k => r[j] # r[k]
             /\ \A j \in 1..(Len(r) - 1) : Score(r[j]) >= Score(r[j + 1])
             /\ \A i \in eligible \ returned, k \in returned : Score(i) <= Score(k)
             /\ Len(r) = Min(max, Cardinality(eligible))]_vars

\* GetOptimalPeersForBroadcast has just left out the best-scoring peer, which
\* was the excluded one, and cut the others down to max
C17_Witness ==
  /\ out.op = "GetOptimalPeersForBroadcast"
  /\ out.arg[1] \in Known
  /\ Cardinality(Known) = 3
  /\ out.arg[2] = 1
  /\ Len(out.val) = 1
  /\ Score(out.arg[1]) > Score(out.val[1])

TopPeers(r, k) ==
  LET returned == {r[j] : j \in 1..Len(r)}
  IN  /\ returned \subseteq Known
      /\ Len(r) = Cardinality(returned)
      /\ \A j \in 1..(Len(r) - 1) : Score(r[j]) >= Score(r[j + 1])
      /\ Len(r) = Min(k, Cardinality(Known))
      /\ \A i \in Known \ returned, j \in returned : Score(i) <= Score(j)

C20_RoutesFollowTopology ==
  [][/\ (out'.op = "RouteMessage" /\ RouteMessage(out'.arg))
          => out'.val \in ComputeRoutes(router.strategy, out'.arg)
     /\ UpdateRouteCache => DOMAIN router'.routeCache = {}]_vars

\* C22: VerifyHandshakeMessage fails on a message signed by its embedded key
\* exactly when the timestamp is more than 300 seconds from now, in the past
\* or in the future, and fails on every message whose signature does not
\* verify against the embedded key.
C22_HandshakeWindowExact ==
  out.op = "VerifyHandshakeMessage"
    => LET m == out.arg
           distance == IF now >= m.ts THEN now - m.ts ELSE m.ts - now
       IN  IF m.key # "" /\ m.signer = m.key
             THEN (out.val = "error") <=> (distance > 300)
             ELSE out.val = "error"

\* C23: Validate returns an error exactly when the type, the id or the sender
\* is empty, whatever the timestamp and the payload.
C23_ValidateChecksThreeFields ==
  out.op = "Validate"
    => ((out.val = "error")
          <=> (out.arg.type = "" \/ out.arg.id = "" \/ out.arg.sender = ""))

\* Validate has refused a message that lacks only its sender and carries a
\* payload and a timestamp
C23_Witness ==
  /\ out.op = "Validate"
  /\ out.val = "error"
  /\ out.arg.type # "" /\ out.arg.id # "" /\ out.arg.sender = ""
  /\ out.arg.nodeId # "" /\ out.arg.ts > 0

\* C26: GetNetworkMetrics reports the number of known peers as total_peers and
\* the number of peers marked connected as connected_peers; AddPeer does not
\* mark the peer connected, so that with one peer added the metrics are
\* total_peers 1, connected_peers 0 and topology_type "star".
C26_AddedPeerNotConnected ==
  out.op = "GetNetworkMetrics"
    => /\ out.val.total_peers = Cardinality(Known)
       /\ out.val.connected_peers = Cardinality({i \in Known : mgr[i].Connected})
       /\ Cardinality(Known) = 1
            => /\ out.val.total_peers = 1
               /\ out.val.connected_peers = 0
               /\ out.val.topology_type = "star"

\* the peer sets that the calls left in rest can leave, made one after another
\* in any order that keeps each task's own order, starting from the set K
RECURSIVE Outcomes(_, _)
Outcomes(rest, K) ==
  LET busy == {t \in DOMAIN rest : rest[t] # <<>>}
      After(c) == IF c.op = "AddPeer" THEN K \cup {c.id}
                  ELSE IF c.op = "RemovePeer" THEN K \ {c.id}
                  ELSE K
  IN  IF busy = {} THEN {K}
      ELSE UNION {Outcomes([rest EXCEPT ![t] = Tail(@)], After(Head(rest[t]))) : t \in busy}

AllReturned == \A t \in DOMAIN task : task[t].ip > Len(task[t].prog)

\* C21: with tasks calling AddPeer, RemovePeer and GetBestPeers concurrently,
\* no task writes the peer map while another reads or writes it; when all
\* calls have returned the map is what the AddPeer and RemovePeer calls leave
\* when made one after another in some order that keeps each task's order; and
\* the ids a GetBestPeers returns are all in the map at the instant its range
\* ends.
C21_ConcurrentCallsSerialize ==
  /\ [](\A t, u \in DOMAIN task :
          t # u => ~(task[t].pc = "write" /\ task[u].pc \in {"write", "range"}))
  /\ [](AllReturned
          => /\ {i \in DOMAIN mgr : mgr[i].known}
                  \in Outcomes([t \in DOMAIN task |-> task[t].prog], {})
             /\ \A i \in DOMAIN mgr : mgr[i].known => mgr[i] = NewPeerInfo)
  /\ [][\A t \in DOMAIN task :
          RangeEnd(t)
            => \A j \in DOMAIN task'[t].result : mgr[task'[t].result[j]].known]_vars

\* all calls have returned, the order of the calls mattered, and a
\* GetBestPeers returned a peer that another task added
C21_Witness ==
  /\ DOMAIN task # {}
  /\ AllReturned
  /\ Cardinality(Outcomes([t \in DOMAIN task |-> task[t].prog], {})) > 1
  /\ \E t, u \in DOMAIN task :
       /\ t # u
       /\ task[t].result # <<>>
       /\ \A c \in {task[t].prog[j] : j \in DOMAIN task[t].prog} : c.op # "AddPeer"
       /\ \E j \in DOMAIN task[u].prog : task[u].prog[j].op = "RemovePeer"

\* the calls of op that have returned nil
Succeeded(op) ==
  Cardinality({c \in (DOMAIN task) \X (1..MaxCalls) :
                 /\ c[2] <= Len(task[c[1]].rets)
                 /\ task[c[1]].prog[c[2]] = op
                 /\ task[c[1]].rets[c[2]] = "nil"})

\* C24: Start succeeds only on a Stopped node and Stop only on a Running one,
\* also when calls are made concurrently: the successful Starts are never more
\* than one ahead of the successful Stops, and whenever no Start or Stop is in
\* progress the status is Running after a successful Start and Stopped after
\* a successful Stop or before any Start.
C24_StartStopAlternate ==
  LET ahead == Succeeded("Start") - Succeeded("Stop")
  IN  /\ ahead \in {0, 1}
      /\ (\A t \in DOMAIN task : task[t].pc = "call")
           => /\ ahead = 1 => node.status = StatusRunning
              /\ ahead = 0 => node.status = StatusStopped

\* C25: while the node is Running, that is after a successful Start and before
\* a Stop has been called on it, Wait returns only if the context given to
\* Start has been cancelled.
C25_WaitOutlastsRunning ==
  [][\A t \in DOMAIN task :
       (WaitReturn(t) /\ node.status = StatusRunning) => node.ctxDone]_vars

(* ------------------- handshake before application frames -------------- *)
\* the application frames (p2p.Message) waiting at the dialer's end of socket s
AppFramesToDialer(s) ==
  {i \in DOMAIN inbox[s].d : inbox[s].d[i].kind = "msg"}

\* the handler of node n for socket s has not yet written its handshake response
ResponsePending(n, s) ==
  /\ wire[s].used /\ wire[s].acceptor = n
  /\ conn[n][s].pc \in {"none", "new", "recvHs", "sendResp"}

\* C27: on the accepting side no application frame is written to a connection
\* before the node's own handshake response has been written, and the
\* connection is in neither peer table (the tables SendMessage and Broadcast
\* take their targets from) until then.
C27_ResponseBeforeApplicationFrames ==
  \A s \in Socks :
    ResponsePending("A", s)
      => /\ AppFramesToDialer(s) = {}
         /\ \A p \in PeerIds : peers["A"][p] # s /\ poolPeers["A"][p] # s

(* ---------------------- one dial, scheduled fairly -------------------- *)
\* the steps of the handler goroutine of node n for socket s
HandlerStep(n, s) ==
  \/ HandlerAdd(n, s)
  \/ HsRecv(n, s) \/ HsRespond(n, s) \/ HsSend(n, s) \/ HsRecvResp(n, s)
  \/ HandshakeReadError(n, s)
  \/ LoopTop(n, s) \/ ReadFrame(n, s) \/ ReadError(n, s)
  \/ Teardown(n, s)

\* the accept loop and every handler goroutine that can take a step are
\* eventually scheduled
FairDial ==
  /\ \A s \in Socks : WF_vars(Accept("A", s))
  /\ \A n \in Nodes, s \in Socks : WF_vars(HandlerStep(n, s))

SpecDial == InitPair /\ [][NextPair]_vars /\ FairDial

\* socket s was dialled by B to A
Dialled(s) == wire[s].used /\ wire[s].dialer = "B" /\ wire[s].acceptor = "A"

\* the handler of n for s is in readMessages
InReadLoop(n, s) == conn[n][s].pc \in {"loop", "reading"}

\* both handlers sit in a handshake read on an open socket with nothing in flight
BothWaitToRead(s) ==
  /\ conn["A"][s].pc = "recvHs" /\ conn["B"][s].pc = "recvResp"
  /\ inbox[s].a = <<>> /\ inbox[s].d = <<>>
  /\ ~closedEnd[s].a /\ ~closedEnd[s].d

\* the order of the exchange: B reads from the socket only after it has written
\* its handshake, A writes its handshake only after it has read and verified
\* B's, and the two never both wait to read
C28_HandshakeOrdered ==
  /\ [][\A s \in Socks :
          /\ Len(inbox'[s].d) < Len(inbox[s].d)
               => conn["B"][s].pc \in {"recvResp", "reading"}
          /\ (\E i \in DOMAIN inbox'[s].d :
                i > Len(inbox[s].d) /\ inbox'[s].d[i].kind = "hs")
               => verified["A"][s] = "B"]_vars
  /\ [](\A s \in Socks : ~BothWaitToRead(s))

\* C28: in a dial from B to A the exchange ends with each side having
\* registered the other and sitting in its read loop -- at the least when A
\* completes its own side of the handshake without an error and within the
\* first sweep interval.
C28_DialCompletesHandshake ==
  \A s \in Socks :
    Dialled(s)
      ~> \/ /\ peers["A"]["B"] = s /\ peers["B"]["A"] = s
            /\ InReadLoop("A", s) /\ InReadLoop("B", s)
         \/ conn["A"][s].hsFailed
         \/ now > 0

(* ------------------- errors on a connection's task -------------------- *)
\* the connection s of node n is Closed: its socket is closed and the pool no
\* longer holds it
Closed(n, s) == closedEnd[s][SideOf(s, n)] /\ s \notin connections[n]

\* C29: an error on a connection makes its task close it: once a write on the
\* connection has failed, the task reads no further frame from it (it is
\* Closed or on its way there), as after a read error or an expired deadline.
C29_ErrorsCloseTheConnection ==
  [][\A n \in Nodes, s \in Socks :
       conn[n][s].writeErr
         => ~(conn[n][s].pc = "reading" /\ conn'[n][s].pc = "loop")]_vars

(* ------------------- heartbeats on one connection --------------------- *)
\* A and B started, socket 1 dialled by B, accepted by A, the handshake complete
\* on both sides: each has registered the other and is at the top of its read loop
InitHeartbeat ==
  /\ now = 0
  /\ net = [n \in Nodes |-> StartedNet]
  /\ peers = [n \in Nodes |-> [p \in PeerIds |->
                IF p \in Nodes /\ p # n THEN 1 ELSE NoConn]]
  /\ poolPeers = [n \in Nodes |-> [p \in PeerIds |->
                    IF p \in Nodes /\ p # n THEN 1 ELSE NoConn]]
  /\ topoPeers = [n \in Nodes |-> Nodes \ {n}]
  /\ connections = [n \in Nodes |-> {1}]
  /\ conn = [n \in Nodes |-> [c \in ConnIds |->
               IF c = 1 THEN [FreshConn EXCEPT !.pc = "loop"] ELSE FreshConn]]
  /\ wire = [s \in ConnIds |->
               IF s = 1
               THEN [used |-> TRUE, dialer |-> "B", acceptor |-> "A", accepted |-> TRUE]
               ELSE FreshWire]
  /\ closedEnd = [s \in ConnIds |-> [d |-> FALSE, a |-> FALSE]]
  /\ inbox = [s \in ConnIds |-> [d |-> <<>>, a |-> <<>>]]
  /\ messageChan = [n \in Nodes |-> <<>>]
  /\ sent = 0
  /\ ret = NoCall
  /\ verified = [n \in Nodes |-> [c \in ConnIds |->
                   IF c = 1 THEN CHOOSE p \in Nodes : p # n ELSE "none"]]
  /\ poolCloses = [n \in Nodes |-> [c \in ConnIds |-> 0]]
  /\ onceRuns = [n \in Nodes |-> 0]
  /\ dropped = [n \in Nodes |-> 0]
  /\ TopoIdle
  /\ TaskIdle

\* heartbeatService: the ticker fires and a HEARTBEAT is broadcast
HeartbeatTick(n) ==
  /\ net[n].ctx = "live"
  /\ \E o \in Orders(PoolPeerIds(n)) : Broadcast(n, MessageTypeHeartbeat, o)

NextHeartbeat ==
  \/ Tick
  \/ \E n \in Nodes : HeartbeatTick(n)
  \/ \E n \in Nodes : LoopTop(n, 1)
  \/ \E n \in Nodes : ReadFrame(n, 1)
  \/ \E n \in Nodes : ReadError(n, 1)
  \/ \E n \in Nodes : Teardown(n, 1)

\* each read loop that can take a step is eventually scheduled
FairHeartbeat == \A n \in Nodes : WF_vars(HandlerStep(n, 1))

SpecHeartbeat == InitHeartbeat /\ [][NextHeartbeat]_vars /\ FairHeartbeat

\* this step writes a HEARTBEAT frame to socket s
HeartbeatWritten(s) ==
  \E side \in {"a", "d"} :
    /\ Len(inbox'[s][side]) > Len(inbox[s][side])
    /\ inbox'[s][side][Len(inbox'[s][side])].type = MessageTypeHeartbeat

\* C30: the heartbeats sent by the tickers cause only finitely many frames:
\* the tickers fire finitely often, and from some point on no HEARTBEAT frame
\* is written to the connection any more.
C30_HeartbeatsDieOut == <>[][~HeartbeatWritten(1)]_vars

(* ------------- read calls that take the read lock twice --------------- *)
\* the calls a task makes here: a writer, and the two readers that call a
\* second reader while they hold the read lock
NestedCalls ==
  {[op |-> "AddPeer", id |-> 1], [op |-> "GetNetworkMetrics", id |-> 0],
   [op |-> "GetOptimalPeersForBroadcast", id |-> 0]}

NestedReaders == {"GetNetworkMetrics", "GetOptimalPeersForBroadcast"}

\* sync.RWMutex.RLock returns: no writer holds the lock and none waits for it
\* (a pending Lock blocks new readers)
CanRLockPending == mu.writer = NoTask /\ mu.waiting = {}

\* AddPeer: t.mu.Lock() is called and announces the writer
LockRequest(t) ==
  /\ task[t].pc = "call"
  /\ task[t].ip <= Len(task[t].prog)
  /\ CurrentCall(t).op = "AddPeer"
  /\ mu' = [mu EXCEPT !.waiting = @ \cup {t}]
  /\ task' = [task EXCEPT ![t].pc = "locking"]
  /\ UNCHANGED <<p2pVars, topoVars, node>>

\* AddPeer: t.mu.Lock() returns once every reader has left
LockAcquire(t) ==
  /\ task[t].pc = "locking"
  /\ mu.writer = NoTask /\ mu.readers = {} /\ mu.inner = {}
  /\ mu' = [mu EXCEPT !.writer = t, !.waiting = @ \ {t}]
  /\ task' = [task EXCEPT ![t].pc = "write"]
  /\ UNCHANGED <<p2pVars, topoVars, node>>

\* GetNetworkMetrics / GetOptimalPeersForBroadcast: t.mu.RLock()
OuterRLock(t) ==
  /\ task[t].pc = "call"
  /\ task[t].ip <= Len(task[t].prog)
  /\ CurrentCall(t).op \in NestedReaders
  /\ CanRLockPending
  /\ mu' = [mu EXCEPT !.readers = @ \cup {t}]
  /\ task' = [task EXCEPT ![t].pc = "outer"]
  /\ UNCHANGED <<p2pVars, topoVars, node>>

\* the t.mu.RLock() of the GetTopologyType / GetBestPeers called inside
InnerRLock(t) ==
  /\ task[t].pc = "outer"
  /\ CanRLockPending
  /\ mu' = [mu EXCEPT !.inner = @ \cup {t}]
  /\ task' = [task EXCEPT ![t].pc = "inner"]
  /\ UNCHANGED <<p2pVars, topoVars, node>>

\* the inner call's deferred RUnlock, and its return
InnerRUnlock(t) ==
  /\ task[t].pc = "inner"
  /\ mu' = [mu EXCEPT !.inner = @ \ {t}]
  /\ task' = [task EXCEPT ![t].pc = "runlock"]
  /\ UNCHANGED <<p2pVars, topoVars, node>>

InitNested ==
  /\ NetIdle
  /\ TopoIdle
  /\ node = NewNode
  /\ mu = FreeMutex
  /\ task \in [Tasks -> {NewTask(prog) : prog \in [1..MaxCalls -> NestedCalls]}]

\* the step task t can take
NestedStep(t) ==
  \/ LockRequest(t)
  \/ LockAcquire(t)
  \/ MapWrite(t)
  \/ Unlock(t)
  \/ OuterRLock(t)
  \/ InnerRLock(t)
  \/ InnerRUnlock(t)
  \/ RUnlock(t)

NextNested == \E t \in Tasks : NestedStep(t)

\* every goroutine that can take a step is eventually scheduled
FairNested == \A t \in Tasks : WF_vars(NestedStep(t))

SpecNested == InitNested /\ [][NextNested]_vars /\ FairNested

\* C31: every Manager call returns, under every interleaving of the readers
\* that take the read lock twice with the writers.
C31_ManagerCallsReturn == <>AllReturned

FairStop ==
  /\ WF_vars(AcceptExit("A"))
  /\ WF_vars(SweepExit("A"))
  /\ WF_vars(DispatchExit("A"))
  /\ \A s \in Socks : WF_vars(HandlerStep("A", s))

SpecStop == Init /\ [][Next]_vars /\ FairStop

\* every loop of n has returned, every connection handler of n has returned,
\* and the pool of n is empty
AllTasksEnded(n) ==
  /\ net[n].accept = "exit" /\ net[n].sweep = "exit" /\ net[n].dispatch = "exit"
  /\ \A s \in Socks : conn[n][s].pc \in {"none", "done"}
  /\ connections[n] = {}

\* C33: once Stop has cancelled the context of a started network, every loop
\* and every connection handler eventually returns and the pool becomes empty;
\* stated here for the runs in which a connection had been accepted by the
\* time of the Stop.
C33_StopEndsEveryTask ==
  \A s \in Socks :
    (/\ net["A"].ctx = "cancelled" /\ net["A"].launched > 0
     /\ wire[s].used /\ wire[s].acceptor = "A" /\ wire[s].accepted)
      ~> AllTasksEnded("A")

(* ---------------- tasks calling one Router concurrently ---------------- *)
\* the calls a task makes on the Router
RouterCalls ==
  {[op |-> "RouteMessage", id |-> x] : x \in Targets}
    \cup {[op |-> "UpdateRouteCache", id |-> 0]}

\* a task about to make its first call; route is the route it has computed
\* and not yet stored, computes the targets it has computed a route for, rets
\* what its RouteMessage calls returned
NewRouterTask(prog) ==
  [prog |-> prog, ip |-> 1, pc |-> "call", route |-> <<>>, computes |-> <<>>,
   rets |-> <<>>]

\* a RouteMessage that computes without looking at the cache again
SecondLookupMut(targetID) == FALSE

\* RouteMessage: the look-up made again under the write lock
SecondLookup(targetID) == targetID \in DOMAIN router.routeCache

\* RouteMessage: r.mu.RLock()
RouteRLock(t) ==
  /\ task[t].pc = "call"
  /\ task[t].ip <= Len(task[t].prog)
  /\ CurrentCall(t).op = "RouteMessage"
  /\ CanRLockPending
  /\ mu' = [mu EXCEPT !.readers = @ \cup {t}]
  /\ task' = [task EXCEPT ![t].pc = "lookup"]
  /\ UNCHANGED <<p2pVars, topoVars, node>>

\* RouteMessage: the first look-up and r.mu.RUnlock(); a hit returns the route
RouteLookup(t) ==
  LET targetID == CurrentCall(t).id
  IN  /\ task[t].pc = "lookup"
      /\ mu' = [mu EXCEPT !.readers = @ \ {t}]
      /\ task' = IF targetID \in DOMAIN router.routeCache
                 THEN [task EXCEPT ![t].pc = "call", ![t].ip = @ + 1,
                                   ![t].rets = Append(@, <<targetID, router.routeCache[targetID]>>)]
                 ELSE [task EXCEPT ![t].pc = "lock"]
      /\ UNCHANGED <<p2pVars, topoVars, node>>

\* RouteMessage after a miss, and UpdateRouteCache: r.mu.Lock()
RouterLock(t) ==
  /\ \/ task[t].pc = "lock"
     \/ /\ task[t].pc = "call"
        /\ task[t].ip <= Len(task[t].prog)
        /\ CurrentCall(t).op = "UpdateRouteCache"
  /\ CanLock
  /\ mu' = [mu EXCEPT !.writer = t]
  /\ task' = [task EXCEPT ![t].pc = IF CurrentCall(t).op = "RouteMessage"
                                    THEN "recheck" ELSE "clear"]
  /\ UNCHANGED <<p2pVars, topoVars, node>>

\* RouteMessage: the second look-up, and on a miss the switch on r.strategy
RouteRecheck(t) ==
  LET targetID == CurrentCall(t).id
  IN  /\ task[t].pc = "recheck"
      /\ IF SecondLookup(targetID)
         THEN task' = [task EXCEPT ![t].pc = "unlock",
                                   ![t].rets = Append(@, <<targetID, router.routeCache[targetID]>>)]
         ELSE \E route \in ComputeRoutes(router.strategy, targetID) :
                task' = [task EXCEPT ![t].pc = "store", ![t].route = route,
                                     ![t].computes = Append(@, targetID)]
      /\ UNCHANGED <<p2pVars, topoVars, node, mu>>

\* RouteMessage: r.routeCache[targetID] = route; return route
RouteStore(t) ==
  LET targetID == CurrentCall(t).id
  IN  /\ task[t].pc = "store"
      /\ router' = [router EXCEPT !.routeCache =
                      [x \in DOMAIN @ \cup {targetID} |->
                         IF x = targetID THEN task[t].route ELSE @[x]]]
      /\ task' = [task EXCEPT ![t].pc = "unlock",
                              ![t].rets = Append(@, <<targetID, task[t].route>>)]
      /\ UNCHANGED <<p2pVars, mgr, out, node, mu>>

\* UpdateRouteCache: r.routeCache = make(map[string][]string)
RouteClear(t) ==
  /\ task[t].pc = "clear"
  /\ router' = [router EXCEPT !.routeCache = <<>>]
  /\ task' = [task EXCEPT ![t].pc = "unlock"]
  /\ UNCHANGED <<p2pVars, mgr, out, node, mu>>

\* a Router of any strategy over a Manager that knows two peers of equal
\* score; each task is given its calls
InitRouterTasks ==
  /\ NetIdle
  /\ mgr = [i \in TopoIds |-> IF i <= 2 THEN NewPeerInfo ELSE NoPeer]
  /\ router \in {[strategy |-> s, routeCache |-> <<>>] : s \in {Direct, Gossip, ShortestPath}}
  /\ out = NoOut
  /\ node = NewNode
  /\ mu = FreeMutex
  /\ task \in [Tasks -> {NewRouterTask(prog) : prog \in [1..MaxCalls -> RouterCalls]}]

NextRouterTasks ==
  \E t \in Tasks :
    \/ RouteRLock(t)
    \/ RouteLookup(t)
    \/ RouterLock(t)
    \/ RouteRecheck(t)
    \/ RouteStore(t)
    \/ RouteClear(t)
    \/ Unlock(t)

SpecRouterTasks == InitRouterTasks /\ [][NextRouterTasks]_vars

\* how often a route to target x has been computed, by any task
Computations(x) ==
  Cardinality({c \in Tasks \X (1..MaxCalls) :
                 /\ c[2] <= Len(task[c[1]].computes)
                 /\ task[c[1]].computes[c[2]] = x})

\* how often the cache has been emptied
Clears ==
  Cardinality({c \in Tasks \X (1..MaxCalls) :
                 /\ task[c[1]].prog[c[2]].op = "UpdateRouteCache"
                 /\ \/ c[2] < task[c[1]].ip
                    \/ c[2] = task[c[1]].ip /\ task[c[1]].pc = "unlock"})

\* C34: with concurrent RouteMessage calls the route to a target is computed
\* at most once between invalidations of the cache, all calls for a target
\* return the same route as long as no UpdateRouteCache has emptied the cache,
\* and when UpdateRouteCache empties the cache no route computed earlier is
\* still waiting to be stored.
C34_RouteComputedOnce ==
  /\ [](\A x \in Targets : Computations(x) <= 1 + Clears)
  /\ [](Clears = 0
          => \A t, u \in Tasks : \A j \in DOMAIN task[t].rets, k \in DOMAIN task[u].rets :
               task[t].rets[j][1] = task[u].rets[k][1]
                 => task[t].rets[j][2] = task[u].rets[k][2])
  /\ [][(\E t \in Tasks : task[t].pc = "clear" /\ task'[t].pc = "unlock")
          => /\ router'.routeCache = <<>>
             /\ \A u \in Tasks : task[u].pc # "store"]_vars

\* under Gossip, where two routes were possible, a task that missed the cache
\* in its first look-up has found, in its second look-up under the write
\* lock, the route another task computed meanwhile, and returns that route
C34_Witness ==
  /\ router.strategy = Gossip
  /\ Clears = 0
  /\ \E t, u \in Tasks :
       /\ t # u
       /\ task[u].pc = "unlock" /\ task[u].ip = 1
       /\ CurrentCall(u).op = "RouteMessage"
       /\ task[u].computes = <<>>
       /\ task[t].computes = <<CurrentCall(u).id>>
       /\ task[u].rets = <<<<CurrentCall(u).id, task[t].route>>>>
       /\ Cardinality(ComputeRoutes(Gossip, CurrentCall(u).id)) > 1

(* ------------------- frames read off one connection ------------------- *)
\* C35: every frame written on a connection after the handshake message is
\* taken off the socket by the connection's task one at a time and in arrival
\* order: a step that takes frames off an end of a socket takes exactly the
\* first frame waiting there and leaves the frames behind it to be read next.
C35_FramesReadOneByOneInOrder ==
  [][\A s \in Socks, side \in {"a", "d"} :
       Len(inbox'[s][side]) < Len(inbox[s][side])
         => inbox'[s][side] = Tail(inbox[s][side])]_vars

(* ------------------ the clock and the sweep, kept going --------------- *)
\* as FairStop, and the clock advances and the sweep's ticker fires
FairSweep ==
  /\ FairStop
  /\ WF_vars(Tick)
  /\ WF_vars(Sweep("A"))

SpecSweep == Init /\ [][Next]_vars /\ FairSweep

\* C36: a connection whose handler waits for the remote's handshake message
\* does not wait for ever: while the network is running the connection is
\* eventually closed and removed from the pool, unless a handshake is verified
\* on it first; and a connection on which no handshake was verified registers
\* no peer.  (Stated for connections pooled early enough for the bounded clock
\* to reach their timeout.)
C36_HandshakeReceiveBounded ==
  /\ \A s \in Socks :
       (/\ conn["A"][s].pc = "recvHs"
        /\ conn["A"][s].LastSeen + DefaultConnectionTimeout <= MaxTicks * SweepInterval)
         ~> \/ conn["A"][s].pc = "done" /\ Closed("A", s)
            \/ verified["A"][s] # "none"
            \/ net["A"].ctx # "live"
  /\ [](\A s \in Socks, p \in PeerIds :
          verified["A"][s] = "none" => peers["A"][p] # s /\ poolPeers["A"][p] # s)

\* the remote has sent nothing and has not closed, the network is running,
\* and the handler has returned after the sweep closed the idle connection
C36_Witness ==
  \E s \in Socks :
    /\ wire[s].acceptor = "A" /\ wire[s].accepted
    /\ net["A"].ctx = "live"
    /\ sent = 0 /\ ~closedEnd[s].d
    /\ verified["A"][s] = "none"
    /\ conn["A"][s].hsFailed
    /\ conn["A"][s].pc = "done" /\ Closed("A", s)

(* ----------- tasks updating one peer's reputation concurrently --------- *)
\* the calls a task makes, all about peer 1
ReputationCalls ==
  {[op |-> "UpdateReputationBasedOnBehavior", id |-> 1, arg |-> Unit],
   [op |-> "DecayReputation", id |-> 1, arg |-> Unit \div 2],
   [op |-> "AddPeer", id |-> 1, arg |-> 0],
   [op |-> "RemovePeer", id |-> 1, arg |-> 0]}

ReputationUpdates == {"UpdateReputationBasedOnBehavior", "DecayReputation"}

\* a task about to make its first call; cur is the reputation in the copy
\* GetPeerInfo handed it, adds the number of AddPeer calls made by then
NewReputationTask(prog) == [prog |-> prog, ip |-> 1, pc |-> "call", cur |-> 0, adds |-> 0]

\* the AddPeer calls that have returned
Adds ==
  Cardinality({c \in Tasks \X (1..MaxCalls) :
                 task[c[1]].prog[c[2]].op = "AddPeer" /\ c[2] < task[c[1]].ip})

\* the reputation call c computes from the reputation cur it read
NewReputation(c, cur) ==
  IF c.op = "DecayReputation" THEN DecayedReputation(cur, c.arg)
  ELSE BehaviorReputation(cur, c.arg)

\* the update's rs.manager.GetPeerInfo(peerID): a copy of the entry, or the
\* return for a peer that is not there
ReputationRead(t) ==
  /\ task[t].pc = "call"
  /\ task[t].ip <= Len(task[t].prog)
  /\ CurrentCall(t).op \in ReputationUpdates
  /\ task' = IF mgr[CurrentCall(t).id].known
             THEN [task EXCEPT ![t].pc = "update",
                               ![t].cur = mgr[CurrentCall(t).id].Reputation,
                               ![t].adds = Adds]
             ELSE [task EXCEPT ![t].ip = @ + 1]
  /\ UNCHANGED <<p2pVars, topoVars, node, mu>>

\* the update's rs.manager.UpdatePeerReputation(peerID, newReputation)
ReputationWrite(t) ==
  /\ task[t].pc = "update"
  /\ mgr' = SetReputation(CurrentCall(t).id, NewReputation(CurrentCall(t), task[t].cur))
  /\ task' = [task EXCEPT ![t].pc = "call", ![t].ip = @ + 1]
  /\ UNCHANGED <<p2pVars, router, out, node, mu>>

\* Manager.AddPeer / Manager.RemovePeer, each under the Manager's lock
PeerCall(t) ==
  /\ task[t].pc = "call"
  /\ task[t].ip <= Len(task[t].prog)
  /\ CurrentCall(t).op \in {"AddPeer", "RemovePeer"}
  /\ mgr' = [mgr EXCEPT ![CurrentCall(t).id] =
               IF CurrentCall(t).op = "AddPeer" THEN NewPeerInfo ELSE NoPeer]
  /\ task' = [task EXCEPT ![t].ip = @ + 1]
  /\ UNCHANGED <<p2pVars, router, out, node, mu>>

\* a Manager that knows peer 1; each task is given its calls
InitReputationTasks ==
  /\ NetIdle
  /\ mgr = [i \in TopoIds |-> IF i = 1 THEN NewPeerInfo ELSE NoPeer]
  /\ router = [strategy |-> Direct, routeCache |-> <<>>]
  /\ out = NoOut
  /\ node = NewNode
  /\ mu = FreeMutex
  /\ task \in [Tasks -> {NewReputationTask(prog) : prog \in [1..MaxCalls -> ReputationCalls]}]

NextReputationTasks ==
  \E t \in Tasks :
    \/ ReputationRead(t)
    \/ ReputationWrite(t)
    \/ PeerCall(t)

SpecReputationTasks == InitReputationTasks /\ [][NextReputationTasks]_vars

\* the entry of peer 1 after call c made on entry e, the call taken as a whole
AfterCall(c, e) ==
  IF c.op = "AddPeer" THEN NewPeerInfo
  ELSE IF c.op = "RemovePeer" THEN NoPeer
  ELSE IF e.known THEN [e EXCEPT !.Reputation = NewReputation(c, e.Reputation)]
  ELSE e

\* the entries the calls in rest can leave from entry e when made one after
\* another, each task's calls in its order
RECURSIVE EntryOutcomes(_, _)
EntryOutcomes(rest, e) ==
  LET busy == {t \in DOMAIN rest : rest[t] # <<>>}
  IN  IF busy = {} THEN {e}
      ELSE UNION {EntryOutcomes([rest EXCEPT ![t] = Tail(@)], AfterCall(Head(rest[t]), e)) :
                    t \in busy}

\* C37: reputation updates are atomic: when all calls have returned the entry
\* of the peer is what the calls leave when made one after another in some
\* order, and an update never writes to an entry added after it read.
C37_ReputationUpdatesAtomic ==
  /\ [](AllReturned
          => mgr[1] \in EntryOutcomes([t \in Tasks |-> task[t].prog], NewPeerInfo))
  /\ [][\A t \in Tasks :
          (task[t].pc = "update" /\ task'[t].pc = "call" /\ mgr[CurrentCall(t).id].known)
            => task[t].adds = Adds]_vars

(* ----------------------- the three peer registries -------------------- *)
\* the ids in the Network peer table of n
NetworkPeerIds(n) == {p \in PeerIds : peers[n][p] # NoConn}

\* C38: whenever no registration, message handler or shutdown step is in
\* progress, the Network peer table, the pool's peer table and the topology
\* Manager hold the same peer ids, so that Status().TotalPeers, the size of
\* the pool's peer table, is the size of the Network peer table.
C38_RegistriesAgree ==
  Quiescent("A")
    => /\ NetworkPeerIds("A") = PoolPeerIds("A")
       /\ PoolPeerIds("A") = topoPeers["A"]
       /\ Cardinality(PoolPeerIds("A")) = Cardinality(NetworkPeerIds("A"))

(* --------------------- who a handshake registers ---------------------- *)
\* the endpoint at the other end of socket s of node n
RemoteEnd(n, s) == IF wire[s].dialer = n THEN wire[s].acceptor ELSE wire[s].dialer

\* C39: a handshake registers a peer id only for the holder of that node's
\* private key: the id A's handshake verification accepts on a connection is
\* the id of the endpoint at the other end, never that of another node.
C39_PeerIdNeedsPrivateKey ==
  \A s \in Socks :
    verified["A"][s] # "none" => verified["A"][s] = RemoteEnd("A", s)

(* ------------------ one caller restarting one Node -------------------- *)
\* a single task is given twice MaxCalls calls on one new Node
InitRestart ==
  /\ NetIdle
  /\ TopoIdle
  /\ node = NewNode
  /\ mu = FreeMutex
  /\ task \in [{1} -> {NewCaller(prog) :
                         prog \in [1..(2 * MaxCalls) -> {"Start", "Stop", "Wait"}]}]

NextRestart ==
  \/ RunExit
  \/ CancelCtx
  \/ StartCheck(1)
  \/ StartSetStarting(1)
  \/ StartGo(1)
  \/ StartSetRunning(1)
  \/ StopCheck(1)
  \/ StopSetStopping(1)
  \/ StopClose(1)
  \/ StopSetStopped(1)
  \/ WaitReturn(1)

SpecRestart == InitRestart /\ [][NextRestart]_vars

\* C40: a Node can be started and stopped again and again by one caller: no
\* channel is ever closed a second time, and the run loop returns only when
\* the context is cancelled or a Stop of the current run is waiting for it.
C40_NodeCanBeRestarted ==
  /\ [](~node.panicked)
  /\ [][node'.runs < node.runs
          => node.ctxDone \/ \E t \in DOMAIN task : task[t].pc = "wait"]_vars

====
